---- MODULE Spec2Model ----
(***************************************************************************)
(* Verification model of the document pipeline of the banking multi-agent  *)
(* system: src/src/rag/document_processor.py.                              *)
(*                                                                         *)
(* Text is a sequence of one-character strings.  A piece of text carries,  *)
(* next to its content, the position `at` of its first character in the   *)
(* page it was cut from.  `at` is a history value: no operation of the     *)
(* splitter reads it, it only records where the content came from, so that *)
(* properties about overlap and coverage can be stated.                    *)
(*                                                                         *)
(* DocumentProcessor delegates segmentation to the text splitter it builds *)
(* in __init__ (RecursiveCharacterTextSplitter with the five separators,   *)
(* length_function=len and the library defaults keep_separator=True,       *)
(* strip_whitespace=True).  The operators SplitTextWithRegex, JoinDocs,    *)
(* MergeSplits and SplitText follow that splitter's algorithm.             *)
(***************************************************************************)
EXTENDS Integers, Sequences, FiniteSets, TLC

\* ------------------------------------------------------------- bounds
MaxLen == 4
MaxChunk == 3
MaxEnrich == 2
MaxFiles == 3
MaxParts == 2
MaxCalls == 3
MaxThreads == 2

\* ------------------------------------------------------------- text
Alphabet == {"a", ".", " ", "\n"}

Whitespace == {" ", "\n"}

RECURSIVE SeqsUpTo(_, _)
SeqsUpTo(S, n) ==
    IF n = 0 THEN {<<>>}
    ELSE LET shorter == SeqsUpTo(S, n - 1)
         IN  shorter \cup {Append(s, c) : s \in {t \in shorter : Len(t) = n - 1}, c \in S}

\* the page texts tried: every text over the alphabet up to MaxLen characters
\* and, two characters further, every text of words and spaces
Texts ==
    SeqsUpTo(Alphabet, MaxLen)
    \cup {t \in SeqsUpTo({"a", " "}, MaxLen + 2) : Len(t) > MaxLen}

Piece(content, at) == [content |-> content, at |-> at]

\* text[i:j] of a piece (1-based, inclusive), keeping track of where it came from
Slice(p, i, j) == Piece(SubSeq(p.content, i, j), p.at + i - 1)

\* ------------------------------------------------------------- splitter
\* separators=[...] as passed to the splitter, coarsest first
SeparatorsNoFallback == << <<"\n", "\n">>, <<"\n">>, <<".", " ">>, <<" ">> >>

Separators == << <<"\n", "\n">>, <<"\n">>, <<".", " ">>, <<" ">>, <<>> >>

MatchesAt(sep, s, i) ==
    /\ i + Len(sep) - 1 <= Len(s)
    /\ \A j \in 1..Len(sep) : s[i + j - 1] = sep[j]

\* re.search(re.escape(sep), text)
Found(sep, s) == \E i \in 1..Len(s) : MatchesAt(sep, s, i)

\* re.split("(sep)", text) recombined with each separator at the head of the
\* piece that follows it, empty pieces dropped
RECURSIVE SplitScan(_, _, _, _)
SplitScan(p, sep, i, start) ==
    IF i + Len(sep) - 1 > Len(p.content)
    THEN IF start <= Len(p.content) THEN <<Slice(p, start, Len(p.content))>> ELSE <<>>
    ELSE IF MatchesAt(sep, p.content, i)
         THEN (IF start <= i - 1 THEN <<Slice(p, start, i - 1)>> ELSE <<>>)
              \o SplitScan(p, sep, i + Len(sep), i)
         ELSE SplitScan(p, sep, i + 1, start)

\* the same split with the separators left out of the pieces
RECURSIVE SplitScanDropping(_, _, _, _)
SplitScanDropping(p, sep, i, start) ==
    IF i + Len(sep) - 1 > Len(p.content)
    THEN IF start <= Len(p.content) THEN <<Slice(p, start, Len(p.content))>> ELSE <<>>
    ELSE IF MatchesAt(sep, p.content, i)
         THEN (IF start <= i - 1 THEN <<Slice(p, start, i - 1)>> ELSE <<>>)
              \o SplitScanDropping(p, sep, i + Len(sep), i + Len(sep))
         ELSE SplitScanDropping(p, sep, i + 1, start)

SplitTextWithRegexDroppingSeparator(p, sep) ==
    IF sep # <<>>
    THEN SplitScanDropping(p, sep, 1, 1)
    ELSE [i \in 1..Len(p.content) |-> Slice(p, i, i)]

SplitTextWithRegex(p, sep) ==
    IF sep # <<>>
    THEN SplitScan(p, sep, 1, 1)
    ELSE [i \in 1..Len(p.content) |-> Slice(p, i, i)]

\* str.strip()
RECURSIVE StripLeft(_)
StripLeft(p) ==
    IF Len(p.content) > 0 /\ Head(p.content) \in Whitespace
    THEN StripLeft(Slice(p, 2, Len(p.content)))
    ELSE p

RECURSIVE StripRight(_)
StripRight(p) ==
    IF Len(p.content) > 0 /\ p.content[Len(p.content)] \in Whitespace
    THEN StripRight(Slice(p, 1, Len(p.content) - 1))
    ELSE p

Strip(p) == StripRight(StripLeft(p))

RECURSIVE Concat(_)
Concat(docs) ==
    IF docs = <<>> THEN <<>> ELSE Head(docs).content \o Concat(Tail(docs))

\* the join with strip_whitespace off
JoinDocsKeepingWhitespace(docs) ==
    LET text == Piece(Concat(docs), IF docs = <<>> THEN 1 ELSE Head(docs).at)
    IN  IF text.content = <<>> THEN <<>> ELSE <<text>>

\* _join_docs with separator "": the joined, stripped text, or nothing when
\* it is empty (returned here as a sequence of zero or one piece)
JoinDocs(docs) ==
    LET text == Strip(Piece(Concat(docs), IF docs = <<>> THEN 1 ELSE Head(docs).at))
    IN  IF text.content = <<>> THEN <<>> ELSE <<text>>

\* the "keep on popping" loop of _merge_splits (separator_len = 0): drops
\* splits from the front of current_doc until what is left fits the overlap
\* and leaves room for the next split
RECURSIVE PopLoopToChunkSize(_, _, _, _, _)
PopLoopToChunkSize(cur, total, len, cs, ov) ==
    IF total > cs \/ (total + len > cs /\ total > 0)
    THEN PopLoopToChunkSize(Tail(cur), total - Len(Head(cur).content), len, cs, ov)
    ELSE [cur |-> cur, total |-> total]

\* the same loop dropping from the back of current_doc
RECURSIVE PopLoopFromBack(_, _, _, _, _)
PopLoopFromBack(cur, total, len, cs, ov) ==
    IF total > ov \/ (total + len > cs /\ total > 0)
    THEN PopLoopFromBack(SubSeq(cur, 1, Len(cur) - 1),
                         total - Len(cur[Len(cur)].content), len, cs, ov)
    ELSE [cur |-> cur, total |-> total]

RECURSIVE PopLoop(_, _, _, _, _)
PopLoop(cur, total, len, cs, ov) ==
    IF total > ov \/ (total + len > cs /\ total > 0)
    THEN PopLoop(Tail(cur), total - Len(Head(cur).content), len, cs, ov)
    ELSE [cur |-> cur, total |-> total]

\* _merge_splits(splits, ""): st = [docs, cur, total] after the splits before i
RECURSIVE MergeFrom(_, _, _, _, _)
MergeFrom(splits, i, st, cs, ov) ==
    IF i > Len(splits)
    THEN st.docs \o JoinDocs(st.cur)
    ELSE LET d == splits[i]
             len == Len(d.content)
             over == st.total + len > cs
             emitted == IF over /\ st.cur # <<>>
                        THEN st.docs \o JoinDocs(st.cur) ELSE st.docs
             kept == IF over /\ st.cur # <<>>
                     THEN PopLoop(st.cur, st.total, len, cs, ov)
                     ELSE [cur |-> st.cur, total |-> st.total]
         IN  MergeFrom(splits, i + 1,
                       [docs |-> emitted,
                        cur |-> Append(kept.cur, d),
                        total |-> kept.total + len],
                       cs, ov)

MergeSplits(splits, cs, ov) ==
    MergeFrom(splits, 1, [docs |-> <<>>, cur |-> <<>>, total |-> 0], cs, ov)

\* a choice that hands the separator it picked on to the next level
RECURSIVE PickSeparatorSameLevel(_, _, _)
PickSeparatorSameLevel(s, seps, i) ==
    IF i > Len(seps)
    THEN [separator |-> seps[Len(seps)], new_separators |-> <<>>]
    ELSE IF seps[i] = <<>>
         THEN [separator |-> <<>>, new_separators |-> <<>>]
         ELSE IF Found(seps[i], s)
              THEN [separator |-> seps[i],
                    new_separators |-> SubSeq(seps, i, Len(seps))]
              ELSE PickSeparatorSameLevel(s, seps, i + 1)

\* the separator _split_text picks: the first one that is "" or occurs in
\* the text; the last one, with nothing finer, when none does
RECURSIVE PickSeparator(_, _, _)
PickSeparator(s, seps, i) ==
    IF i > Len(seps)
    THEN [separator |-> seps[Len(seps)], new_separators |-> <<>>]
    ELSE IF seps[i] = <<>>
         THEN [separator |-> <<>>, new_separators |-> <<>>]
         ELSE IF Found(seps[i], s)
              THEN [separator |-> seps[i],
                    new_separators |-> SubSeq(seps, i + 1, Len(seps))]
              ELSE PickSeparator(s, seps, i + 1)

\* _split_text(text, separators)
RECURSIVE SplitText(_, _, _, _)
RECURSIVE SplitLoop(_, _, _, _, _, _, _)
SplitLoop(splits, i, good, final, new_separators, cs, ov) ==
    IF i > Len(splits)
    THEN IF good # <<>> THEN final \o MergeSplits(good, cs, ov) ELSE final
    ELSE LET s == splits[i]
         IN  IF Len(s.content) < cs
             THEN SplitLoop(splits, i + 1, Append(good, s), final, new_separators, cs, ov)
             ELSE LET flushed == IF good # <<>>
                                 THEN final \o MergeSplits(good, cs, ov) ELSE final
                      broken == IF new_separators = <<>>
                                THEN <<s>>
                                ELSE SplitText(s, new_separators, cs, ov)
                  IN  SplitLoop(splits, i + 1, <<>>, flushed \o broken,
                                new_separators, cs, ov)

SplitText(p, seps, cs, ov) ==
    LET pick == PickSeparator(p.content, seps, 1)
    IN  SplitLoop(SplitTextWithRegex(p, pick.separator), 1, <<>>, <<>>,
                  pick.new_separators, cs, ov)

\* a split that hands back a text that fits chunk_size as it is
SplitPageWholeWhenFitting(text, cs, ov) ==
    IF Len(text) <= cs
    THEN <<Piece(text, 1)>>
    ELSE SplitText(Piece(text, 1), Separators, cs, ov)

\* split_text(text) of the splitter built in __init__
SplitPage(text, cs, ov) == SplitText(Piece(text, 1), Separators, cs, ov)

\* ------------------------------------------------------------- file names
Upper == <<"A", "B", "C", "D", "E", "F", "G", "H", "I", "J", "K", "L", "M",
           "N", "O", "P", "Q", "R", "S", "T", "U", "V", "W", "X", "Y", "Z">>

Lowercase == <<"a", "b", "c", "d", "e", "f", "g", "h", "i", "j", "k", "l", "m",
               "n", "o", "p", "q", "r", "s", "t", "u", "v", "w", "x", "y", "z">>

\* str.lower(), one character at a time
LowerChar(c) ==
    IF \E i \in 1..Len(Upper) : Upper[i] = c
    THEN Lowercase[CHOOSE i \in 1..Len(Upper) : Upper[i] = c]
    ELSE c

Lower(s) == [i \in 1..Len(s) |-> LowerChar(s[i])]

KwAccount == <<"a", "c", "c", "o", "u", "n", "t">>
KwProduct == <<"p", "r", "o", "d", "u", "c", "t">>
KwFee == <<"f", "e", "e">>
KwCharge == <<"c", "h", "a", "r", "g", "e">>
KwLoan == <<"l", "o", "a", "n">>
KwMortgage == <<"m", "o", "r", "t", "g", "a", "g", "e">>
KwSecurity == <<"s", "e", "c", "u", "r", "i", "t", "y">>
KwFraud == <<"f", "r", "a", "u", "d">>
KwService == <<"s", "e", "r", "v", "i", "c", "e">>
KwSupport == <<"s", "u", "p", "p", "o", "r", "t">>

\* _infer_document_type(filename)
InferCaseSensitive(filename) ==
    IF Found(KwAccount, filename) \/ Found(KwProduct, filename) THEN "account_info"
    ELSE IF Found(KwFee, filename) \/ Found(KwCharge, filename) THEN "fees"
    ELSE IF Found(KwLoan, filename) \/ Found(KwMortgage, filename) THEN "loans"
    ELSE IF Found(KwSecurity, filename) \/ Found(KwFraud, filename) THEN "security"
    ELSE IF Found(KwService, filename) \/ Found(KwSupport, filename) THEN "customer_service"
    ELSE "general"

\* the chain without its last rule
InferWithoutServiceRule(filename) ==
    LET filename_lower == Lower(filename)
    IN  IF Found(KwAccount, filename_lower) \/ Found(KwProduct, filename_lower)
        THEN "account_info"
        ELSE IF Found(KwFee, filename_lower) \/ Found(KwCharge, filename_lower)
        THEN "fees"
        ELSE IF Found(KwLoan, filename_lower) \/ Found(KwMortgage, filename_lower)
        THEN "loans"
        ELSE IF Found(KwSecurity, filename_lower) \/ Found(KwFraud, filename_lower)
        THEN "security"
        ELSE "general"

InferDocumentType(filename) ==
    LET filename_lower == Lower(filename)
    IN  IF Found(KwAccount, filename_lower) \/ Found(KwProduct, filename_lower)
        THEN "account_info"
        ELSE IF Found(KwFee, filename_lower) \/ Found(KwCharge, filename_lower)
        THEN "fees"
        ELSE IF Found(KwLoan, filename_lower) \/ Found(KwMortgage, filename_lower)
        THEN "loans"
        ELSE IF Found(KwSecurity, filename_lower) \/ Found(KwFraud, filename_lower)
        THEN "security"
        ELSE IF Found(KwService, filename_lower) \/ Found(KwSupport, filename_lower)
        THEN "customer_service"
        ELSE "general"

\* ------------------------------------------------------------- paths
\* a path is [dir, name]; str(path) joins them with "/"
PathStr(path) == path.dir \o <<"/">> \o path.name

\* the largest i with name[i] = ".", 0 when there is none
LastDot(name) ==
    IF \E i \in 1..Len(name) : name[i] = "."
    THEN CHOOSE i \in 1..Len(name) :
            name[i] = "." /\ \A j \in (i + 1)..Len(name) : name[j] # "."
    ELSE 0

\* pathlib's Path.suffix: from the last dot on, "" when the name has no dot,
\* starts with its only dot, or ends with a dot
Suffix(name) ==
    LET d == LastDot(name)
    IN  IF d <= 1 \/ d = Len(name) THEN <<>> ELSE SubSeq(name, d, Len(name))

ExtDocx == <<".", "d", "o", "c", "x">>
ExtPdf == <<".", "p", "d", "f">>
ExtTxt == <<".", "t", "x", "t">>

\* ------------------------------------------------------------- documents
\* dict.update
MetaUpdate(m, u) ==
    [k \in DOMAIN m \cup DOMAIN u |-> IF k \in DOMAIN u THEN u[k] ELSE m[k]]

\* What loader.load() yields for a file whose content is a list of page
\* texts: one Document per page, the PDF loader adding the page number.
\* `page` and `at` record where a text came from.
LoaderLoad(file, extension) ==
    [i \in 1..Len(file.content) |->
        [page_content |-> file.content[i],
         metadata |-> IF extension = ExtPdf
                      THEN [source |-> PathStr(file.path), page |-> i - 1]
                      ELSE [source |-> PathStr(file.path)],
         page |-> i,
         at |-> 1]]

\* load_document(file_path): the documents returned and the records logged
\* at WARNING or above.  The loader of a file that cannot be read or parsed
\* (readable = FALSE) raises.
LoadDocumentCaseSensitive(file) ==
    LET extension == Suffix(file.path.name)
    IN  IF extension \notin {ExtDocx, ExtPdf, ExtTxt}
        THEN [documents |-> <<>>,
              log |-> <<[level |-> "warning", at |-> "load_document", file |-> file.path.name]>>]
        ELSE IF ~file.readable
        THEN [documents |-> <<>>,
              log |-> <<[level |-> "error", at |-> "load_document", file |-> file.path.name]>>]
        ELSE [documents |-> LoaderLoad(file, extension), log |-> <<>>]

\* a load_document that reads a file of any other type as text
LoadDocumentDefaultingToText(file) ==
    LET extension == Lower(Suffix(file.path.name))
    IN  IF ~file.readable
        THEN [documents |-> <<>>,
              log |-> <<[level |-> "error", at |-> "load_document", file |-> file.path.name]>>]
        ELSE [documents |-> LoaderLoad(file, extension), log |-> <<>>]

LoadDocument(file) ==
    LET extension == Lower(Suffix(file.path.name))
    IN  IF extension \notin {ExtDocx, ExtPdf, ExtTxt}
        THEN [documents |-> <<>>,
              log |-> <<[level |-> "warning", at |-> "load_document", file |-> file.path.name]>>]
        ELSE IF ~file.readable
        THEN [documents |-> <<>>,
              log |-> <<[level |-> "error", at |-> "load_document", file |-> file.path.name]>>]
        ELSE [documents |-> LoaderLoad(file, extension), log |-> <<>>]

\* split_documents: every page is split on its own, each chunk gets a copy
\* of its page's metadata, and the chunks of the pages follow each other
RECURSIVE SplitDocuments(_, _, _)
SplitDocuments(documents, cs, ov) ==
    IF documents = <<>> THEN <<>>
    ELSE LET doc == Head(documents)
             pieces == SplitPage(doc.page_content, cs, ov)
         IN  [i \in 1..Len(pieces) |->
                [page_content |-> pieces[i].content,
                 metadata |-> doc.metadata,
                 page |-> doc.page,
                 at |-> pieces[i].at]]
             \o SplitDocuments(Tail(documents), cs, ov)

\* chunk_documents(documents)
ChunkDocuments(proc, documents) ==
    SplitDocuments(documents, proc.chunk_size, proc.chunk_overlap)

\* enrich_metadata(chunks, source_file)
EnrichMetadataOneBased(chunks_in, path) ==
    [i \in 1..Len(chunks_in) |->
        [chunks_in[i] EXCEPT !.metadata =
            MetaUpdate(chunks_in[i].metadata,
                       [source |-> PathStr(path),
                        filename |-> path.name,
                        doc_type |-> InferDocumentType(path.name),
                        chunk_index |-> i,
                        total_chunks |-> Len(chunks_in),
                        chunk_size |-> Len(chunks_in[i].page_content)])]]

\* an enrichment that hands the chunks back last first
EnrichMetadataReversed(chunks_in, path) ==
    [i \in 1..Len(chunks_in) |->
        [chunks_in[Len(chunks_in) - i + 1] EXCEPT !.metadata =
            MetaUpdate(chunks_in[Len(chunks_in) - i + 1].metadata,
                       [source |-> PathStr(path),
                        filename |-> path.name,
                        doc_type |-> InferDocumentType(path.name),
                        chunk_index |-> i - 1,
                        total_chunks |-> Len(chunks_in),
                        chunk_size |->
                            Len(chunks_in[Len(chunks_in) - i + 1].page_content)])]]

\* an enrichment that adds to the total_chunks it finds
EnrichMetadataAccumulating(chunks_in, path) ==
    [i \in 1..Len(chunks_in) |->
        [chunks_in[i] EXCEPT !.metadata =
            MetaUpdate(chunks_in[i].metadata,
                       [source |-> PathStr(path),
                        filename |-> path.name,
                        doc_type |-> InferDocumentType(path.name),
                        chunk_index |-> i - 1,
                        total_chunks |->
                            (IF "total_chunks" \in DOMAIN chunks_in[i].metadata
                             THEN chunks_in[i].metadata.total_chunks ELSE 0)
                            + Len(chunks_in),
                        chunk_size |-> Len(chunks_in[i].page_content)])]]

EnrichMetadata(chunks_in, path) ==
    LET doc_type_of_file == InferDocumentType(path.name)
    IN  [i \in 1..Len(chunks_in) |->
            [chunks_in[i] EXCEPT !.metadata =
                MetaUpdate(chunks_in[i].metadata,
                           [source |-> PathStr(path),
                            filename |-> path.name,
                            doc_type |-> doc_type_of_file,
                            chunk_index |-> i - 1,
                            total_chunks |-> Len(chunks_in),
                            chunk_size |-> Len(chunks_in[i].page_content)])]]

\* ------------------------------------------------------------- state
VARIABLES
    pc,          \* where the caller of the processor stands
    args,        \* the arguments given to DocumentProcessor(...)
    processor,   \* the DocumentProcessor object, NoProcessor while none exists
    file,        \* the file at hand: [path, readable, content]
    documents,   \* what load_document returned for it
    chunks,      \* the chunks made of it
    enrichments, \* how many times enrich_metadata has run on chunks
    doc_type,    \* what _infer_document_type returned to its caller
    log,         \* the records logged at WARNING or above, oldest first
    directory,   \* the directory given to process_directory: [exists, entries]
    files,       \* process_directory: the files found, in processing order
    file_idx,    \* process_directory: how many of them have been handled
    all_chunks,  \* process_directory: all_chunks
    stats,       \* process_directory: stats
    result,      \* what process_directory gave its caller
    stack,       \* _split_text: the calls under way, innermost last
    pieces,      \* _split_text: what the outermost call returned
    gemini_client, \* gemini_client.py: the module global _gemini_client
    constructions, \* how many times GeminiClient() has been constructed
    callers,     \* the callers of get_gemini_client: where each stands
    agent,       \* the agent object, NoValue while none exists
    request,     \* the last GenerationConfig and prompt sent to the API
    reply,       \* the last call on the agent or the client and what it returned
    calls        \* how many calls have been made on the agent or the client

dirVars == <<directory, files, file_idx, all_chunks, stats, result>>

splitVars == <<stack, pieces>>

clientVars == <<gemini_client, constructions, callers>>

agentVars == <<agent, request, reply, calls>>

vars == <<pc, args, processor, file, documents, chunks, enrichments, doc_type, log,
          dirVars, splitVars, clientVars, agentVars>>

NoProcessor == [none |-> TRUE]

\* ------------------------------------------------------------- construction
\* TextSplitter.__init__ raises ValueError when chunk_overlap > chunk_size.
\* Releases of the library differ on chunk_size <= 0 and chunk_overlap < 0:
\* the later ones raise there too (strict), the earlier ones do not.
SplitterRejectsNothing(chunk_size, chunk_overlap, strict) == FALSE

SplitterRejects(chunk_size, chunk_overlap, strict) ==
    \/ chunk_overlap > chunk_size
    \/ strict /\ (chunk_size <= 0 \/ chunk_overlap < 0)

\* DocumentProcessor.__init__(chunk_size, chunk_overlap): stores both values
\* as given and builds the splitter from them; an exception of the splitter's
\* constructor leaves no processor
NewProcessorClampingOverlap(chunk_size, chunk_overlap) ==
    [chunk_size |-> chunk_size,
     chunk_overlap |-> IF chunk_overlap >= chunk_size /\ chunk_size > 0
                       THEN chunk_size - 1 ELSE chunk_overlap]

\* the defaults of __init__
DefaultChunkSize == 1000

DefaultChunkOverlap == 200

NewProcessor(chunk_size, chunk_overlap) ==
    [chunk_size |-> chunk_size, chunk_overlap |-> chunk_overlap]

Construct ==
    /\ pc = "new"
    /\ \E strict \in BOOLEAN :
          LET made == NewProcessor(args.chunk_size, args.chunk_overlap)
          IN  IF SplitterRejects(made.chunk_size, made.chunk_overlap, strict)
              THEN /\ processor' = NoProcessor
                   /\ pc' = "config_error"
              ELSE /\ processor' = made
                   /\ pc' = "ready"
    /\ UNCHANGED <<args, file, documents, chunks, enrichments, doc_type, log, dirVars>>
    /\ UNCHANGED <<splitVars, clientVars, agentVars>>

\* ------------------------------------------------------------- one file
CallLoadDocument ==
    /\ pc = "ready"
    /\ LET loaded == LoadDocument(file)
       IN  /\ documents' = loaded.documents
           /\ log' = log \o loaded.log
    /\ pc' = "loaded"
    /\ UNCHANGED <<args, processor, file, chunks, enrichments, doc_type, dirVars>>
    /\ UNCHANGED <<splitVars, clientVars, agentVars>>

CallChunkDocuments ==
    /\ pc = "loaded"
    /\ chunks' = ChunkDocuments(processor, documents)
    /\ pc' = "chunked"
    /\ UNCHANGED <<args, processor, file, documents, enrichments, doc_type, log, dirVars>>
    /\ UNCHANGED <<splitVars, clientVars, agentVars>>

CallEnrichMetadata ==
    /\ pc \in {"chunked", "enriched"}
    /\ enrichments < MaxEnrich
    /\ chunks' = EnrichMetadata(chunks, file.path)
    /\ enrichments' = enrichments + 1
    /\ pc' = "enriched"
    /\ UNCHANGED <<args, processor, file, documents, doc_type, log, dirVars>>
    /\ UNCHANGED <<splitVars, clientVars, agentVars>>

\* ------------------------------------------------------------- statistics
\* ProcessingStats(): the counters at 0 and document_types = {}.
\* avg_chunk_size is kept as the exact fraction num / den.
NewStats ==
    [total_documents |-> 0,
     total_chunks |-> 0,
     avg_chunk_size |-> [num |-> 0, den |-> 1],
     document_types |-> <<>>]

\* document_types[doc_type] = document_types.get(doc_type, 0) + 1, the
\* mapping kept as a function from the categories seen to their counts
CountType(document_types, t) ==
    [k \in DOMAIN document_types \cup {t} |->
        IF k = t
        THEN (IF t \in DOMAIN document_types THEN document_types[t] ELSE 0) + 1
        ELSE document_types[k]]

\* a sum that counts every chunk as one character
SumSizesCountingChunks(cs) == Len(cs)

RECURSIVE SumSizes(_)
SumSizes(cs) ==
    IF cs = <<>> THEN 0 ELSE Len(Head(cs).page_content) + SumSizes(Tail(cs))

\* ------------------------------------------------------------- directory
NoValue == [none |-> TRUE]

\* directory.glob('*' + ext): the entries whose name ends in ext, in the
\* order the directory lists them.  Whether the match folds case is the
\* platform's choice.
EndsWith(name, ext, fold) ==
    /\ Len(name) >= Len(ext)
    /\ LET tail == SubSeq(name, Len(name) - Len(ext) + 1, Len(name))
       IN  IF fold THEN Lower(tail) = ext ELSE tail = ext

Glob(dir, ext, fold) ==
    SelectSeq(dir.entries, LAMBDA f : EndsWith(f.path.name, ext, fold))

\* supported_extensions and the loop that globs each of them in turn
FindFiles(dir, fold) ==
    Glob(dir, ExtDocx, fold) \o Glob(dir, ExtPdf, fold) \o Glob(dir, ExtTxt, fold)

\* the check at the head of process_directory
DirectoryMissingNeverRaised(dir) == FALSE

DirectoryMissing(dir) == ~dir.exists

\* One pass of the loop body of process_directory for the file f, from
\* st = [all_chunks, stats, log].  A file without documents is passed over.
\* Otherwise its chunks are appended and counted; chunks[0] of an empty chunk
\* list raises IndexError after that, which the except clause logs.
ProcessFileCountingUnloaded(proc, st, f) ==
    LET loaded == LoadDocument(f)
        log1 == st.log \o loaded.log
        counted == [st.stats EXCEPT !.total_documents = @ + 1]
    IN  IF loaded.documents = <<>>
        THEN [st EXCEPT !.log = log1, !.stats = counted]
        ELSE LET made == EnrichMetadata(ChunkDocuments(proc, loaded.documents), f.path)
             IN  [all_chunks |-> st.all_chunks \o made,
                  stats |-> [counted EXCEPT !.total_chunks = @ + Len(made)],
                  log |-> log1]

\* a loop body that numbers the chunks through the whole batch
ProcessFileNumberingAcrossBatch(proc, st, f) ==
    LET loaded == LoadDocument(f)
        log1 == st.log \o loaded.log
    IN  IF loaded.documents = <<>>
        THEN [st EXCEPT !.log = log1]
        ELSE LET enriched == EnrichMetadata(ChunkDocuments(proc, loaded.documents), f.path)
                 made == [i \in 1..Len(enriched) |->
                             [enriched[i] EXCEPT !.metadata.chunk_index =
                                 @ + Len(st.all_chunks)]]
                 counted == [st.stats EXCEPT !.total_documents = @ + 1,
                                             !.total_chunks = @ + Len(made)]
             IN  IF made = <<>>
                 THEN [all_chunks |-> st.all_chunks \o made,
                       stats |-> counted,
                       log |-> Append(log1, [level |-> "error",
                                             at |-> "process_directory",
                                             file |-> f.path.name])]
                 ELSE [all_chunks |-> st.all_chunks \o made,
                       stats |-> [counted EXCEPT !.document_types =
                                     CountType(@, made[1].metadata.doc_type)],
                       log |-> log1]

\* a loop body that counts the documents loaded where the code counts chunks
ProcessFileCountingPages(proc, st, f) ==
    LET loaded == LoadDocument(f)
        log1 == st.log \o loaded.log
    IN  IF loaded.documents = <<>>
        THEN [st EXCEPT !.log = log1]
        ELSE LET made == EnrichMetadata(ChunkDocuments(proc, loaded.documents), f.path)
                 counted == [st.stats EXCEPT !.total_documents = @ + 1,
                                             !.total_chunks = @ + Len(loaded.documents)]
             IN  IF made = <<>>
                 THEN [all_chunks |-> st.all_chunks \o made,
                       stats |-> counted,
                       log |-> Append(log1, [level |-> "error",
                                             at |-> "process_directory",
                                             file |-> f.path.name])]
                 ELSE [all_chunks |-> st.all_chunks \o made,
                       stats |-> [counted EXCEPT !.document_types =
                                     CountType(@, made[1].metadata.doc_type)],
                       log |-> log1]

ProcessFile(proc, st, f) ==
    LET loaded == LoadDocument(f)
        log1 == st.log \o loaded.log
    IN  IF loaded.documents = <<>>
        THEN [st EXCEPT !.log = log1]
        ELSE LET made == EnrichMetadata(ChunkDocuments(proc, loaded.documents), f.path)
                 counted == [st.stats EXCEPT !.total_documents = @ + 1,
                                             !.total_chunks = @ + Len(made)]
             IN  IF made = <<>>
                 THEN [all_chunks |-> st.all_chunks \o made,
                       stats |-> counted,
                       log |-> Append(log1, [level |-> "error",
                                             at |-> "process_directory",
                                             file |-> f.path.name])]
                 ELSE [all_chunks |-> st.all_chunks \o made,
                       stats |-> [counted EXCEPT !.document_types =
                                     CountType(@, made[1].metadata.doc_type)],
                       log |-> log1]

\* process_directory up to the loop: the existence check, the fresh
\* all_chunks and stats, and the files found
ProcessDirectoryStart ==
    /\ pc = "pd_call"
    /\ IF DirectoryMissing(directory)
       THEN /\ result' = [kind |-> "raised", error |-> "FileNotFoundError"]
            /\ pc' = "pd_raised"
            /\ UNCHANGED <<files, file_idx, all_chunks, stats>>
       ELSE /\ \E fold \in BOOLEAN : files' = FindFiles(directory, fold)
            /\ file_idx' = 0
            /\ all_chunks' = <<>>
            /\ stats' = NewStats
            /\ pc' = "pd_loop"
            /\ UNCHANGED result
    /\ UNCHANGED <<args, processor, file, documents, chunks, enrichments, doc_type,
                   log, directory>>
    /\ UNCHANGED <<splitVars, clientVars, agentVars>>

\* one iteration of "for file_path in files"
ProcessDirectoryFile ==
    /\ pc = "pd_loop"
    /\ file_idx < Len(files)
    /\ LET after == ProcessFile(processor,
                                [all_chunks |-> all_chunks, stats |-> stats, log |-> log],
                                files[file_idx + 1])
       IN  /\ all_chunks' = after.all_chunks
           /\ stats' = after.stats
           /\ log' = after.log
    /\ file_idx' = file_idx + 1
    /\ UNCHANGED <<pc, args, processor, file, documents, chunks, enrichments, doc_type,
                   directory, files, result>>
    /\ UNCHANGED <<splitVars, clientVars, agentVars>>

\* after the loop: the average and the return
ProcessDirectoryReturn ==
    /\ pc = "pd_loop"
    /\ file_idx = Len(files)
    /\ LET final == IF all_chunks # <<>>
                    THEN [stats EXCEPT !.avg_chunk_size =
                             [num |-> SumSizes(all_chunks), den |-> Len(all_chunks)]]
                    ELSE stats
       IN  /\ stats' = final
           /\ result' = [kind |-> "returned", chunks |-> all_chunks, stats |-> final]
    /\ pc' = "pd_returned"
    /\ UNCHANGED <<args, processor, file, documents, chunks, enrichments, doc_type, log,
                   directory, files, file_idx, all_chunks>>
    /\ UNCHANGED <<splitVars, clientVars, agentVars>>

\* no _split_text call traced, no client and no agent
RestIdle ==
    /\ stack = <<>>
    /\ pieces = <<>>
    /\ gemini_client = [none |-> TRUE]
    /\ constructions = 0
    /\ callers = <<>>
    /\ agent = [none |-> TRUE]
    /\ request = [none |-> TRUE]
    /\ reply = [none |-> TRUE]
    /\ calls = 0

\* no process_directory call under way
DirIdle ==
    /\ directory = [exists |-> FALSE, entries |-> <<>>]
    /\ files = <<>>
    /\ file_idx = 0
    /\ all_chunks = <<>>
    /\ stats = NoValue
    /\ result = NoValue

\* ------------------------------------------------------------- inputs
DataDir == <<"d", "a", "t", "a">>

PathOf(name) == [dir |-> DataDir, name |-> name]

\* a file of the data directory: its path, whether its loader can read it,
\* and the page texts the loader finds in it
File(name, readable, content) ==
    [path |-> PathOf(name), readable |-> readable, content |-> content]

FeeTxt == <<"f", "e", "e", ".", "t", "x", "t">>
LoanPdf == <<"l", "o", "a", "n", ".", "p", "d", "f">>
NotesMd == <<"n", "o", "t", "e", "s", ".", "m", "d">>
UpperTxt == <<"F", "E", "E", ".", "T", "X", "T">>

\* page texts of the two-page file
PageSamples == {<<>>, <<" ">>, <<"a", "a">>, <<"a", " ", "a">>}

OneFileInputs ==
    {File(FeeTxt, TRUE, <<t>>) : t \in Texts}
    \cup {File(LoanPdf, TRUE, <<t1, t2>>) : t1 \in PageSamples, t2 \in PageSamples}
    \cup {File(FeeTxt, FALSE, <<>>),
          File(NotesMd, TRUE, <<<<"a">>>>),
          File(UpperTxt, TRUE, <<<<"a", " ", "a">>>>)}

Init ==
    /\ pc = "new"
    /\ args \in [chunk_size : 0..MaxChunk, chunk_overlap : 0..MaxChunk]
    /\ processor = NoProcessor
    /\ file \in OneFileInputs
    /\ documents = <<>>
    /\ chunks = <<>>
    /\ enrichments = 0
    /\ doc_type = NoValue
    /\ log = <<>>
    /\ DirIdle
    /\ RestIdle

Next ==
    \/ Construct
    \/ CallLoadDocument
    \/ CallChunkDocuments
    \/ CallEnrichMetadata

Spec == Init /\ [][Next]_vars


\* ------------------------------------------------------------- directories
ADocx == <<"a", ".", "d", "o", "c", "x">>

\* a file named ".txt": glob('*.txt') finds it and its suffix is ''
DotTxt == <<".", "t", "x", "t">>

\* what a directory can hold under each name: a .txt or .docx file loads as
\* one document, a .pdf file as one document per page
DirFiles ==
    {File(FeeTxt, FALSE, <<>>), File(FeeTxt, TRUE, <<<<" ">>>>),
     File(FeeTxt, TRUE, <<<<"a", " ", "a">>>>),
     File(ADocx, FALSE, <<>>), File(ADocx, TRUE, <<<<>>>>),
     File(ADocx, TRUE, <<<<"a", "a", "a">>>>),
     File(LoanPdf, FALSE, <<>>), File(LoanPdf, TRUE, <<>>),
     File(LoanPdf, TRUE, <<<<"a", " ", "a">>, <<"a">>>>),
     File(UpperTxt, FALSE, <<>>), File(UpperTxt, TRUE, <<<<"a", " ", "a">>>>),
     File(NotesMd, TRUE, <<<<"a">>>>),
     File(DotTxt, TRUE, <<<<"a">>>>)}

\* the listings of up to n files with different names
RECURSIVE Listings(_)
Listings(n) ==
    IF n = 0 THEN {<<>>}
    ELSE LET shorter == Listings(n - 1)
         IN  shorter \cup
             {Append(l, f) : l \in {k \in shorter : Len(k) = n - 1},
                             f \in DirFiles} 

DistinctNames(l) ==
    \A i, j \in 1..Len(l) : i # j => l[i].path.name # l[j].path.name

Directories ==
    {[exists |-> TRUE, entries |-> l] : l \in {k \in Listings(MaxFiles) : DistinctNames(k)}}
    \cup {[exists |-> FALSE, entries |-> <<>>]}

DirProcessors == {NewProcessor(2, 1), NewProcessor(3, 0)}

InitDir ==
    /\ pc = "pd_call"
    /\ processor \in DirProcessors
    /\ args = processor
    /\ directory \in Directories
    /\ file = File(<<>>, FALSE, <<>>)
    /\ documents = <<>>
    /\ chunks = <<>>
    /\ enrichments = 0
    /\ doc_type = NoValue
    /\ log = <<>>
    /\ files = <<>>
    /\ file_idx = 0
    /\ all_chunks = <<>>
    /\ stats = NoValue
    /\ result = NoValue
    /\ RestIdle

NextDir ==
    \/ ProcessDirectoryStart
    \/ ProcessDirectoryFile
    \/ ProcessDirectoryReturn

SpecDir == InitDir /\ [][NextDir]_vars

\* ------------------------------------------------------------- file name inputs
\* file names are put together from these parts
NameParts ==
    {KwAccount, KwProduct, KwFee, KwCharge, KwLoan, KwMortgage, KwSecurity,
     KwFraud, KwService, KwSupport,
     <<"F", "E", "E">>, <<"L", "o", "a", "n">>, <<"S", "e", "r", "V", "i", "c", "e">>, <<"f", "r">>, <<"a", "u", "d">>, <<"s", "u", "p">>, <<"p", "o", "r", "t">>,
     <<"n", "o", "t", "e", "s">>, <<"_">>, ExtDocx}

\* the names of the sample documents, and one that names no category
AccountTypesDocx ==
    <<"a", "c", "c", "o", "u", "n", "t", "_", "t", "y", "p", "e", "s", ".", "d", "o", "c", "x">>

FeeScheduleDocx ==
    <<"f", "e", "e", "_", "s", "c", "h", "e", "d", "u", "l", "e", ".", "d", "o", "c", "x">>

LoanProductsDocx ==
    <<"l", "o", "a", "n", "_", "p", "r", "o", "d", "u", "c", "t", "s", ".", "d", "o", "c", "x">>

CustomerServiceDocx ==
    <<"c", "u", "s", "t", "o", "m", "e", "r", "_", "s", "e", "r", "v", "i", "c", "e", ".", "d", "o", "c", "x">>

SecurityPolicyDocx ==
    <<"s", "e", "c", "u", "r", "i", "t", "y", "_", "p", "o", "l", "i", "c", "y", ".", "d", "o", "c", "x">>

RandomNotesDocx ==
    <<"r", "a", "n", "d", "o", "m", "_", "n", "o", "t", "e", "s", ".", "d", "o", "c", "x">>

SampleNames ==
    {AccountTypesDocx, FeeScheduleDocx, LoanProductsDocx, CustomerServiceDocx,
     SecurityPolicyDocx, RandomNotesDocx}

RECURSIVE NamesUpTo(_)
NamesUpTo(n) ==
    IF n = 0 THEN {<<>>}
    ELSE LET shorter == NamesUpTo(n - 1)
         IN  shorter \cup {a \o b : a \in shorter, b \in NameParts}

CallInferDocumentType ==
    /\ pc = "infer"
    /\ doc_type' = InferDocumentType(file.path.name)
    /\ pc' = "inferred"
    /\ UNCHANGED <<args, processor, file, documents, chunks, enrichments, log, dirVars>>
    /\ UNCHANGED <<splitVars, clientVars, agentVars>>

InitInfer ==
    /\ pc = "infer"
    /\ processor = NewProcessor(DefaultChunkSize, DefaultChunkOverlap)
    /\ args = processor
    /\ file \in {File(name, TRUE, <<>>) : name \in NamesUpTo(MaxParts) \cup SampleNames}
    /\ documents = <<>>
    /\ chunks = <<>>
    /\ enrichments = 0
    /\ doc_type = NoValue
    /\ log = <<>>
    /\ DirIdle
    /\ RestIdle

NextInfer == CallInferDocumentType

SpecInfer == InitInfer /\ [][NextInfer]_vars

\* ------------------------------------------------------------- _split_text step by step
\* The recursion of _split_text with its call stack spelled out.  A frame is
\* one call: the separators it was given, the separator it picked, the
\* finer ones left, its splits, the index of the split at hand, and its
\* _good_splits and final_chunks.
NewFrame(p, seps) ==
    LET pick == PickSeparator(p.content, seps, 1)
    IN  [separators |-> seps,
         separator |-> pick.separator,
         new_separators |-> pick.new_separators,
         splits |-> SplitTextWithRegex(p, pick.separator),
         i |-> 1,
         good |-> <<>>,
         final |-> <<>>]

Top == stack[Len(stack)]

ReplaceTop(frame) == [stack EXCEPT ![Len(stack)] = frame]

\* final_chunks with the _good_splits merged onto it
Flushed(frame) ==
    IF frame.good # <<>>
    THEN frame.final \o MergeSplits(frame.good, processor.chunk_size, processor.chunk_overlap)
    ELSE frame.final

\* split_text(text): the outermost call
SplitEnter ==
    /\ pc = "split_call"
    /\ stack' = <<NewFrame(Piece(file.content[1], 1), Separators)>>
    /\ pc' = "splitting"
    /\ UNCHANGED <<args, processor, file, documents, chunks, enrichments, doc_type, log,
                   dirVars, pieces, clientVars, agentVars>>

\* a split shorter than chunk_size joins _good_splits
SplitKeep ==
    /\ pc = "splitting"
    /\ Top.i <= Len(Top.splits)
    /\ Len(Top.splits[Top.i].content) < processor.chunk_size
    /\ stack' = ReplaceTop([Top EXCEPT !.good = Append(@, Top.splits[Top.i]),
                                       !.i = @ + 1])
    /\ UNCHANGED <<pc, args, processor, file, documents, chunks, enrichments, doc_type,
                   log, dirVars, pieces, clientVars, agentVars>>

\* a split of chunk_size or more with no finer separator left is a chunk
SplitEmit ==
    /\ pc = "splitting"
    /\ Top.i <= Len(Top.splits)
    /\ Len(Top.splits[Top.i].content) >= processor.chunk_size
    /\ Top.new_separators = <<>>
    /\ stack' = ReplaceTop([Top EXCEPT !.final = Append(Flushed(Top), Top.splits[Top.i]),
                                       !.good = <<>>,
                                       !.i = @ + 1])
    /\ UNCHANGED <<pc, args, processor, file, documents, chunks, enrichments, doc_type,
                   log, dirVars, pieces, clientVars, agentVars>>

\* a split of chunk_size or more is split again with the finer separators
SplitRecurse ==
    /\ pc = "splitting"
    /\ Top.i <= Len(Top.splits)
    /\ Len(Top.splits[Top.i].content) >= processor.chunk_size
    /\ Top.new_separators # <<>>
    /\ stack' = Append(ReplaceTop([Top EXCEPT !.final = Flushed(Top), !.good = <<>>]),
                       NewFrame(Top.splits[Top.i], Top.new_separators))
    /\ UNCHANGED <<pc, args, processor, file, documents, chunks, enrichments, doc_type,
                   log, dirVars, pieces, clientVars, agentVars>>

\* the loop is over: the call returns final_chunks to its caller, which
\* extends its own with them and moves on
SplitReturn ==
    /\ pc = "splitting"
    /\ Top.i > Len(Top.splits)
    /\ LET returned == Flushed(Top)
           rest == SubSeq(stack, 1, Len(stack) - 1)
       IN  IF rest = <<>>
           THEN /\ stack' = <<>>
                /\ pieces' = returned
                /\ pc' = "split_done"
           ELSE /\ stack' = [rest EXCEPT ![Len(rest)] =
                                [@ EXCEPT !.final = @ \o returned, !.i = @ + 1]]
                /\ UNCHANGED <<pieces, pc>>
    /\ UNCHANGED <<args, processor, file, documents, chunks, enrichments, doc_type, log,
                   dirVars, clientVars, agentVars>>

\* the processors split_text is traced for: every chunk_size >= 1 with the
\* overlaps the splitter accepts
SplitProcessors ==
    {NewProcessor(cs, ov) : cs \in 1..MaxChunk, ov \in 0..MaxChunk} \ 
        {proc \in [chunk_size : 1..MaxChunk, chunk_overlap : 0..MaxChunk] :
            SplitterRejects(proc.chunk_size, proc.chunk_overlap, FALSE)}

InitSplit ==
    /\ pc = "split_call"
    /\ processor \in SplitProcessors
    /\ args = processor
    /\ file \in {File(FeeTxt, TRUE, <<t>>) : t \in Texts}
    /\ documents = <<>>
    /\ chunks = <<>>
    /\ enrichments = 0
    /\ doc_type = NoValue
    /\ log = <<>>
    /\ DirIdle
    /\ RestIdle

NextSplit ==
    \/ SplitEnter
    \/ SplitKeep
    \/ SplitEmit
    \/ SplitRecurse
    \/ SplitReturn

\* a call that has started keeps running
SpecSplit == InitSplit /\ [][NextSplit]_vars /\ WF_vars(NextSplit)

\* ------------------------------------------------------------- generation parameters
\* an optional argument: None, or Some(v) for the value v
None == [none |-> TRUE]

Some(v) == [value |-> v]

\* "x or default" for an optional number: the default when x is None or 0.
\* Temperatures and top_p are counted in tenths (7 is 0.7).
OrDefault(x, default) == IF x = None \/ x.value = 0 THEN default ELSE x.value

\* "if system_instruction:" for an optional text
Truthy(text) == text # None /\ text.value # <<>>

\* config.model: the defaults of ModelConfig
ConfigTemperature == 7

ConfigMaxTokens == 2048

ConfigTopP == 9

\* ------------------------------------------------------------- texts of the client
ErrorPrefix ==
    <<"I", " ", "a", "p", "o", "l", "o", "g", "i", "z", "e", ",", " ", "b",
          "u", "t", " ", "I", "'", "m", " ", "e", "x", "p", "e", "r", "i", "e",
          "n", "c", "i", "n", "g", " ", "t", "e", "c", "h", "n", "i", "c", "a",
          "l", " ", "d", "i", "f", "f", "i", "c", "u", "l", "t", "i", "e", "s",
          ".", " ", "P", "l", "e", "a", "s", "e", " ", "t", "r", "y", " ", "a",
          "g", "a", "i", "n", ".", " ", "(", "E", "r", "r", "o", "r", ":", " ">>

\* the f-string generate_response returns when the API call has failed
ErrorText(message) == ErrorPrefix \o message \o <<")">>

\* what generate_with_history returns when the chat has failed
ChatErrorText ==
    <<"I", " ", "a", "p", "o", "l", "o", "g", "i", "z", "e", ",", " ", "b",
          "u", "t", " ", "I", "'", "m", " ", "e", "x", "p", "e", "r", "i", "e",
          "n", "c", "i", "n", "g", " ", "t", "e", "c", "h", "n", "i", "c", "a",
          "l", " ", "d", "i", "f", "f", "i", "c", "u", "l", "t", "i", "e", "s",
          ".", " ", "P", "l", "e", "a", "s", "e", " ", "t", "r", "y", " ", "a",
          "g", "a", "i", "n", ".">>

UserTurn ==
    <<"\n", "\n", "U", "s", "e", "r", ":", " ">>

AssistantTurn ==
    <<"\n", "\n", "A", "s", "s", "i", "s", "t", "a", "n", "t", ":">>

\* the prompt of test_connection and its max_tokens
TestPrompt ==
    <<"R", "e", "s", "p", "o", "n", "d", " ", "w", "i", "t", "h", " ", "O",
          "K", " ", "i", "f", " ", "y", "o", "u", " ", "c", "a", "n", " ", "r",
          "e", "a", "d", " ", "t", "h", "i", "s", ".">>

TestMaxTokens == 10

UpperOK ==
    <<"O", "K">>

LowerOk ==
    <<"o", "k">>

\* ------------------------------------------------------------- the API
\* what a call of the Gemini API can do: return a text, or raise an
\* exception that carries a message
TextOK ==
    <<"O", "K">>

TextHello ==
    <<"H", "e", "l", "l", "o">>

MessageTimeout ==
    <<"t", "i", "m", "e", "o", "u", "t">>

MessageToken ==
    <<"b", "a", "d", " ", "t", "o", "k", "e", "n">>

ApiTexts == {TextOK, TextHello}

ErrorMessages == {MessageTimeout, MessageToken}

ApiOutcomes ==
    {[kind |-> "text", text |-> t] : t \in ApiTexts}
    \cup {[kind |-> "error", message |-> e] : e \in ErrorMessages}

\* ------------------------------------------------------------- GeminiClient
\* get_gemini_client() run from start to end by one caller
GetGeminiClient(client, count) ==
    IF client = None
    THEN [client |-> [id |-> count + 1], constructions |-> count + 1]
    ELSE [client |-> client, constructions |-> count]

\* generate_response(prompt, temperature, max_tokens, system_instruction)
\* when the API call does `outcome`: the request made and the text returned
GenerateResponse(prompt, temperature, max_tokens, system_instruction, outcome) ==
    [request |->
        [temperature |-> OrDefault(temperature, ConfigTemperature),
         max_output_tokens |-> OrDefault(max_tokens, ConfigMaxTokens),
         top_p |-> ConfigTopP,
         prompt |-> IF Truthy(system_instruction)
                    THEN system_instruction.value \o UserTurn \o prompt \o AssistantTurn
                    ELSE prompt],
     response |-> IF outcome.kind = "text"
                  THEN outcome.text
                  ELSE ErrorText(outcome.message)]

\* generate_with_history(messages, temperature, max_tokens): the chat is
\* fed the user messages before the last one, then the last one is sent
\* with the generation config.  sent_last tells whether the chat got as far
\* as that last send; with no message at all messages[-1] raises.
GenerateWithHistory(messages, temperature, max_tokens, outcome, sent_last) ==
    LET config == [temperature |-> OrDefault(temperature, ConfigTemperature),
                   max_output_tokens |-> OrDefault(max_tokens, ConfigMaxTokens),
                   top_p |-> ConfigTopP,
                   prompt |-> IF messages = <<>> THEN <<>>
                              ELSE messages[Len(messages)].content]
    IN  IF messages = <<>>
        THEN [sent |-> FALSE, request |-> config, response |-> ChatErrorText]
        ELSE IF outcome.kind = "text"
        THEN [sent |-> TRUE, request |-> config, response |-> outcome.text]
        ELSE [sent |-> sent_last, request |-> config, response |-> ChatErrorText]

\* the check test_connection makes on the response
LooksOk(response) == Found(UpperOK, response) \/ Found(LowerOk, Lower(response))

\* test_connection() when the API call does `outcome`
TestConnection(outcome) ==
    LET made == GenerateResponse(TestPrompt, None, Some(TestMaxTokens), None, outcome)
    IN  [request |-> made.request, returned |-> LooksOk(made.response)]

\* ------------------------------------------------------------- BaseAgent.__init__
\* the attributes __init__ sets from its temperature and max_tokens
NewAgent(temperature, max_tokens) ==
    [temperature |-> OrDefault(temperature, ConfigTemperature),
     max_tokens |-> OrDefault(max_tokens, ConfigMaxTokens),
     conversation_history |-> <<>>]

\* the arguments tried
Temperatures == {None, Some(0), Some(3)}

TokenLimits == {None, Some(1500)}

ConstructAgent ==
    /\ pc \in {"client", "agent"}
    /\ agent = NoValue
    /\ calls < MaxCalls
    /\ \E temperature \in Temperatures, max_tokens \in TokenLimits :
          /\ agent' = NewAgent(temperature, max_tokens)
          /\ reply' = [op |-> "BaseAgent", temperature |-> temperature,
                       max_tokens |-> max_tokens]
    /\ LET got == GetGeminiClient(gemini_client, constructions)
       IN  /\ gemini_client' = got.client
           /\ constructions' = got.constructions
    /\ calls' = calls + 1
    /\ UNCHANGED <<pc, args, processor, file, documents, chunks, enrichments, doc_type,
                   log, dirVars, splitVars, callers, request>>

\* ------------------------------------------------------------- calls on the client
PromptHi ==
    <<"H", "i">>

InstructionBrief ==
    <<"B", "e", " ", "b", "r", "i", "e", "f", ".">>

\* one caller fetches the client
CallGetGeminiClient ==
    /\ pc = "client"
    /\ calls < MaxCalls
    /\ LET got == GetGeminiClient(gemini_client, constructions)
       IN  /\ gemini_client' = got.client
           /\ constructions' = got.constructions
           /\ reply' = [op |-> "get_gemini_client", returned |-> got.client]
    /\ calls' = calls + 1
    /\ UNCHANGED <<pc, args, processor, file, documents, chunks, enrichments, doc_type,
                   log, dirVars, splitVars, callers, agent, request>>

CallGenerateResponse ==
    /\ pc = "client"
    /\ gemini_client # None
    /\ calls < MaxCalls
    /\ \E temperature \in Temperatures, max_tokens \in TokenLimits,
          system_instruction \in {None, Some(<<>>), Some(InstructionBrief)},
          outcome \in ApiOutcomes :
          LET made == GenerateResponse(PromptHi, temperature, max_tokens,
                                       system_instruction, outcome)
          IN  /\ request' = made.request
              /\ reply' = [op |-> "generate_response", temperature |-> temperature,
                           max_tokens |-> max_tokens, outcome |-> outcome.kind,
                           returned |-> made.response]
    /\ calls' = calls + 1
    /\ UNCHANGED <<pc, args, processor, file, documents, chunks, enrichments, doc_type,
                   log, dirVars, splitVars, clientVars, agent>>

\* the conversations handed to generate_with_history
Conversations ==
    {<<>>,
     <<[role |-> "user", content |-> PromptHi]>>,
     <<[role |-> "user", content |-> PromptHi],
       [role |-> "assistant", content |-> TextHello],
       [role |-> "user", content |-> PromptHi]>>}

CallGenerateWithHistory ==
    /\ pc = "client"
    /\ gemini_client # None
    /\ calls < MaxCalls
    /\ \E messages \in Conversations, temperature \in Temperatures,
          max_tokens \in TokenLimits, outcome \in ApiOutcomes, sent_last \in BOOLEAN :
          LET made == GenerateWithHistory(messages, temperature, max_tokens,
                                          outcome, sent_last)
          IN  /\ request' = IF made.sent THEN made.request ELSE request
              /\ reply' = [op |-> "generate_with_history", temperature |-> temperature,
                           max_tokens |-> max_tokens, outcome |-> outcome.kind,
                           config |-> made.request, returned |-> made.response]
    /\ calls' = calls + 1
    /\ UNCHANGED <<pc, args, processor, file, documents, chunks, enrichments, doc_type,
                   log, dirVars, splitVars, clientVars, agent>>

CallTestConnection ==
    /\ pc = "client"
    /\ gemini_client # None
    /\ calls < MaxCalls
    /\ \E outcome \in ApiOutcomes :
          LET made == TestConnection(outcome)
          IN  /\ request' = made.request
              /\ reply' = [op |-> "test_connection", outcome |-> outcome,
                           returned |-> made.returned]
    /\ calls' = calls + 1
    /\ UNCHANGED <<pc, args, processor, file, documents, chunks, enrichments, doc_type,
                   log, dirVars, splitVars, clientVars, agent>>

InitClient ==
    /\ pc = "client"
    /\ processor = NoProcessor
    /\ args = NewProcessor(DefaultChunkSize, DefaultChunkOverlap)
    /\ file = File(<<>>, FALSE, <<>>)
    /\ documents = <<>>
    /\ chunks = <<>>
    /\ enrichments = 0
    /\ doc_type = NoValue
    /\ log = <<>>
    /\ DirIdle
    /\ RestIdle

NextClient ==
    \/ CallGetGeminiClient
    \/ ConstructAgent
    \/ CallGenerateResponse
    \/ CallGenerateWithHistory
    \/ CallTestConnection

SpecClient == InitClient /\ [][NextClient]_vars

\* ------------------------------------------------------------- get_gemini_client, caller by caller
\* get_gemini_client() as its callers run it, each in its own thread: the
\* test of the global, the construction, the assignment and the return are
\* separate steps, and the steps of different callers interleave.

\* "if _gemini_client is None"
SingletonCheck(t) ==
    /\ pc = "singleton"
    /\ callers[t].pc = "start"
    /\ callers' = [callers EXCEPT ![t].pc =
                      IF gemini_client = None THEN "construct" ELSE "return"]
    /\ UNCHANGED <<gemini_client, constructions>>
    /\ UNCHANGED <<pc, args, processor, file, documents, chunks, enrichments,
                   doc_type, log, dirVars, splitVars, agentVars>>

\* GeminiClient()
SingletonConstruct(t) ==
    /\ pc = "singleton"
    /\ callers[t].pc = "construct"
    /\ constructions' = constructions + 1
    /\ callers' = [callers EXCEPT ![t].pc = "store",
                                  ![t].made = [id |-> constructions + 1]]
    /\ UNCHANGED gemini_client
    /\ UNCHANGED <<pc, args, processor, file, documents, chunks, enrichments,
                   doc_type, log, dirVars, splitVars, agentVars>>

\* "_gemini_client = ..."
SingletonStore(t) ==
    /\ pc = "singleton"
    /\ callers[t].pc = "store"
    /\ gemini_client' = callers[t].made
    /\ callers' = [callers EXCEPT ![t].pc = "return"]
    /\ UNCHANGED constructions
    /\ UNCHANGED <<pc, args, processor, file, documents, chunks, enrichments,
                   doc_type, log, dirVars, splitVars, agentVars>>

\* "return _gemini_client"
SingletonReturn(t) ==
    /\ pc = "singleton"
    /\ callers[t].pc = "return"
    /\ callers' = [callers EXCEPT ![t].pc = "done", ![t].got = gemini_client]
    /\ UNCHANGED <<gemini_client, constructions>>
    /\ UNCHANGED <<pc, args, processor, file, documents, chunks, enrichments,
                   doc_type, log, dirVars, splitVars, agentVars>>

\* the caller calls get_gemini_client() once more
SingletonCallAgain(t) ==
    /\ pc = "singleton"
    /\ callers[t].pc = "done"
    /\ callers[t].calls < MaxCalls
    /\ callers' = [callers EXCEPT ![t].pc = "start", ![t].calls = @ + 1]
    /\ UNCHANGED <<gemini_client, constructions>>
    /\ UNCHANGED <<pc, args, processor, file, documents, chunks, enrichments,
                   doc_type, log, dirVars, splitVars, agentVars>>

InitSingleton ==
    /\ pc = "singleton"
    /\ processor = NoProcessor
    /\ args = NewProcessor(DefaultChunkSize, DefaultChunkOverlap)
    /\ file = File(<<>>, FALSE, <<>>)
    /\ documents = <<>>
    /\ chunks = <<>>
    /\ enrichments = 0
    /\ doc_type = NoValue
    /\ log = <<>>
    /\ DirIdle
    /\ stack = <<>>
    /\ pieces = <<>>
    /\ gemini_client = None
    /\ constructions = 0
    /\ callers = [t \in 1..MaxThreads |-> [pc |-> "start", made |-> None, got |-> None,
                                       calls |-> 1]]
    /\ agent = NoValue
    /\ request = NoValue
    /\ reply = NoValue
    /\ calls = 0

NextSingleton ==
    \/ \E t \in 1..MaxThreads : SingletonCheck(t)
    \/ \E t \in 1..MaxThreads : SingletonConstruct(t)
    \/ \E t \in 1..MaxThreads : SingletonStore(t)
    \/ \E t \in 1..MaxThreads : SingletonReturn(t)
    \/ \E t \in 1..MaxThreads : SingletonCallAgain(t)

SpecSingleton == InitSingleton /\ [][NextSingleton]_vars

\* ------------------------------------------------------------- agents
\* str.capitalize(): the first character upper-cased, the rest lower-cased
Capitalize(s) ==
    LET UpperChar(c) ==
            IF \E i \in 1..Len(Lowercase) : Lowercase[i] = c
            THEN Upper[CHOOSE i \in 1..Len(Lowercase) : Lowercase[i] = c]
            ELSE c
    IN  [i \in 1..Len(s) |-> IF i = 1 THEN UpperChar(s[i]) ELSE LowerChar(s[i])]

RoleUser ==
    <<"u", "s", "e", "r">>

RoleAssistant ==
    <<"a", "s", "s", "i", "s", "t", "a", "n", "t">>

\* what process_message returns when anything inside its try has raised
ApologyText ==
    <<"I", " ", "a", "p", "o", "l", "o", "g", "i", "z", "e", ",", " ", "b",
          "u", "t", " ", "I", "'", "m", " ", "h", "a", "v", "i", "n", "g", " ",
          "t", "r", "o", "u", "b", "l", "e", " ", "p", "r", "o", "c", "e", "s",
          "s", "i", "n", "g", " ", "y", "o", "u", "r", " ", "r", "e", "q", "u",
          "e", "s", "t", " ", "r", "i", "g", "h", "t", " ", "n", "o", "w", ".",
          " ", "P", "l", "e", "a", "s", "e", " ", "t", "r", "y", " ", "a", "g",
          "a", "i", "n", " ", "i", "n", " ", "a", " ", "m", "o", "m", "e", "n",
          "t", ".">>

\* the messages handle_greeting and handle_farewell send
GreetingMessage ==
    <<"G", "r", "e", "e", "t", " ", "t", "h", "e", " ", "c", "u", "s", "t",
          "o", "m", "e", "r", " ", "w", "a", "r", "m", "l", "y", " ", "a", "n",
          "d", " ", "a", "s", "k", " ", "h", "o", "w", " ", "y", "o", "u", " ",
          "c", "a", "n", " ", "h", "e", "l", "p", " ", "t", "h", "e", "m", " ",
          "t", "o", "d", "a", "y", ".">>

FarewellMessage ==
    <<"T", "h", "a", "n", "k", " ", "t", "h", "e", " ", "c", "u", "s", "t",
          "o", "m", "e", "r", " ", "a", "n", "d", " ", "w", "i", "s", "h", " ",
          "t", "h", "e", "m", " ", "w", "e", "l", "l", ".">>

\* get_system_prompt() is the subclass's: a text it returns
SystemPrompt ==
    <<"Y", "o", "u", " ", "a", "r", "e", " ", "a", " ", "b", "a", "n", "k",
          " ", "a", "g", "e", "n", "t", ".">>

UserMessages == {PromptHi, <<"F", "e", "e", "s", "?">>}

\* the "{role}: {content}\n" lines of the history, in order
RECURSIVE HistoryLines(_)
HistoryLines(history) ==
    IF history = <<>>
    THEN <<>>
    ELSE Capitalize(Head(history).role) \o <<":", " ">> \o Head(history).content
            \o <<"\n">> \o HistoryLines(Tail(history))

BuildFullPrompt(ag, user_message) ==
    SystemPrompt \o <<"\n", "\n">>
       \o (IF ag.conversation_history # <<>>
           THEN <<"P", "r", "e", "v", "i", "o", "u", "s", " ", "c", "o", "n", "v", "e",
                  "r", "s", "a", "t", "i", "o", "n", ":", "\n">>
                   \o HistoryLines(ag.conversation_history)
                   \o <<"\n">>
           ELSE <<>>)
       \o <<"U", "s", "e", "r", ":", " ">>
       \o user_message
       \o <<"\n", "\n", "A", "s", "s", "i", "s", "t", "a", "n", "t", ":">>

\* what can happen inside the try of process_message: get_system_prompt()
\* raises while the prompt is built, or the prompt is built and the API
\* answers or fails inside generate_response
AgentOutcomes == ApiOutcomes \cup {[kind |-> "prompt_error"]}

Entry(role, content) == [role |-> role, content |-> content]

ProcessMessageAlwaysRecording(ag, user_message, add_to_history, outcome) ==
    IF outcome.kind = "prompt_error"
    THEN [agent |-> ag, request |-> NoValue, returned |-> ApologyText]
    ELSE LET sent == GenerateResponse(BuildFullPrompt(ag, user_message),
                                      Some(ag.temperature), Some(ag.max_tokens),
                                      None, outcome)
         IN  [agent |-> [ag EXCEPT !.conversation_history =
                            @ \o <<Entry(RoleUser, user_message),
                                   Entry(RoleAssistant, sent.response)>>],
              request |-> sent.request,
              returned |-> sent.response]

ProcessMessageRecordingUserOnly(ag, user_message, add_to_history, outcome) ==
    IF outcome.kind = "prompt_error"
    THEN [agent |-> ag, request |-> NoValue, returned |-> ApologyText]
    ELSE LET sent == GenerateResponse(BuildFullPrompt(ag, user_message),
                                      Some(ag.temperature), Some(ag.max_tokens),
                                      None, outcome)
         IN  [agent |-> [ag EXCEPT !.conversation_history =
                            IF add_to_history
                            THEN @ \o <<Entry(RoleUser, user_message)>>
                            ELSE @],
              request |-> sent.request,
              returned |-> sent.response]

ProcessMessageRecordingBeforeCall(ag, user_message, add_to_history, outcome) ==
    LET recorded == [ag EXCEPT !.conversation_history =
                        IF add_to_history
                        THEN @ \o <<Entry(RoleUser, user_message)>>
                        ELSE @]
    IN  IF outcome.kind = "prompt_error"
        THEN [agent |-> recorded, request |-> NoValue, returned |-> ApologyText]
        ELSE LET sent == GenerateResponse(BuildFullPrompt(ag, user_message),
                                          Some(ag.temperature), Some(ag.max_tokens),
                                          None, outcome)
             IN  [agent |-> [recorded EXCEPT !.conversation_history =
                                IF add_to_history
                                THEN @ \o <<Entry(RoleAssistant, sent.response)>>
                                ELSE @],
                  request |-> sent.request,
                  returned |-> sent.response]

\* process_message(user_message, add_to_history): the agent afterwards, the
\* request that reached the API (none when the prompt was never built) and
\* the text returned
ProcessMessage(ag, user_message, add_to_history, outcome) ==
    IF outcome.kind = "prompt_error"
    THEN [agent |-> ag, request |-> NoValue, returned |-> ApologyText]
    ELSE LET sent == GenerateResponse(BuildFullPrompt(ag, user_message),
                                      Some(ag.temperature), Some(ag.max_tokens),
                                      None, outcome)
         IN  [agent |-> [ag EXCEPT !.conversation_history =
                            IF add_to_history
                            THEN @ \o <<Entry(RoleUser, user_message),
                                        Entry(RoleAssistant, sent.response)>>
                            ELSE @],
              request |-> sent.request,
              returned |-> sent.response]

\* clear_history()
ClearHistory(ag) == [ag EXCEPT !.conversation_history = <<>>]

\* the call as the caller saw it
Called(op, user_message, add_to_history, outcome, returned) ==
    [op |-> op, user_message |-> user_message, add_to_history |-> add_to_history,
     outcome |-> outcome.kind, returned |-> returned]

CallProcessMessage ==
    /\ pc = "agent"
    /\ calls < MaxCalls
    /\ \E user_message \in UserMessages, add_to_history \in BOOLEAN,
          outcome \in AgentOutcomes :
          LET done == ProcessMessage(agent, user_message, add_to_history, outcome)
          IN  /\ agent' = done.agent
              /\ request' = done.request
              /\ reply' = Called("process_message", user_message, add_to_history,
                                 outcome, done.returned)
    /\ calls' = calls + 1
    /\ UNCHANGED <<pc, args, processor, file, documents, chunks, enrichments, doc_type,
                   log, dirVars, splitVars, clientVars>>

HandleGreeting ==
    /\ pc = "agent"
    /\ calls < MaxCalls
    /\ \E outcome \in AgentOutcomes :
          LET done == ProcessMessage(agent, GreetingMessage, FALSE, outcome)
          IN  /\ agent' = done.agent
              /\ request' = done.request
              /\ reply' = Called("handle_greeting", GreetingMessage, FALSE, outcome,
                                 done.returned)
    /\ calls' = calls + 1
    /\ UNCHANGED <<pc, args, processor, file, documents, chunks, enrichments, doc_type,
                   log, dirVars, splitVars, clientVars>>

HandleFarewell ==
    /\ pc = "agent"
    /\ calls < MaxCalls
    /\ \E outcome \in AgentOutcomes :
          LET done == ProcessMessage(agent, FarewellMessage, FALSE, outcome)
          IN  /\ agent' = done.agent
              /\ request' = done.request
              /\ reply' = Called("handle_farewell", FarewellMessage, FALSE, outcome,
                                 done.returned)
    /\ calls' = calls + 1
    /\ UNCHANGED <<pc, args, processor, file, documents, chunks, enrichments, doc_type,
                   log, dirVars, splitVars, clientVars>>

CallClearHistory ==
    /\ pc = "agent"
    /\ calls < MaxCalls
    /\ agent' = ClearHistory(agent)
    /\ reply' = Called("clear_history", <<>>, FALSE, [kind |-> "none"], <<>>)
    /\ calls' = calls + 1
    /\ UNCHANGED request
    /\ UNCHANGED <<pc, args, processor, file, documents, chunks, enrichments, doc_type,
                   log, dirVars, splitVars, clientVars>>

\* a customer support agent that has just been constructed, with the shared
\* client: CustomerSupportAgent.__init__ passes temperature=0.7 (7 tenths)
\* and max_tokens=1500
InitAgent ==
    /\ pc = "agent"
    /\ processor = NoProcessor
    /\ args = NewProcessor(DefaultChunkSize, DefaultChunkOverlap)
    /\ file = File(<<>>, FALSE, <<>>)
    /\ documents = <<>>
    /\ chunks = <<>>
    /\ enrichments = 0
    /\ doc_type = NoValue
    /\ log = <<>>
    /\ DirIdle
    /\ stack = <<>>
    /\ pieces = <<>>
    /\ gemini_client = GetGeminiClient(None, 0).client
    /\ constructions = GetGeminiClient(None, 0).constructions
    /\ callers = <<>>
    /\ agent = NewAgent(Some(7), Some(1500))
    /\ request = NoValue
    /\ reply = NoValue
    /\ calls = 0

NextAgent ==
    \/ CallProcessMessage
    \/ HandleGreeting
    \/ HandleFarewell
    \/ CallClearHistory

SpecAgent == InitAgent /\ [][NextAgent]_vars

\* ------------------------------------------------------------- properties
Chunked == pc \in {"chunked", "enriched"}

\* the configuration the chunking properties are stated for
ValidConfig ==
    /\ processor # NoProcessor
    /\ processor.chunk_size >= 1
    /\ processor.chunk_overlap >= 0
    /\ processor.chunk_overlap < processor.chunk_size

Min(a, b) == IF a <= b THEN a ELSE b

Max(a, b) == IF a >= b THEN a ELSE b

\* position in its page of the last character of a chunk
End(c) == c.at + Len(c.page_content) - 1

\* chunks i and i+1 are cut from the same page
Adjacent(i) ==
    /\ i \in 1..(Len(chunks) - 1)
    /\ chunks[i].page = chunks[i + 1].page

\* number of characters of the page that chunk i and chunk i+1 both hold
OverlapLen(i) == Max(0, Min(End(chunks[i]), End(chunks[i + 1])) - chunks[i + 1].at + 1)

PageText(pg) == file.content[pg]

ChunksOfPage(pg) == SelectSeq(chunks, LAMBDA c : c.page = pg)

\* the chunks of one page joined, each without the span it shares with the
\* chunk before it
RECURSIVE RebuildFrom(_, _, _)
RebuildFrom(cs, i, covered) ==
    IF i > Len(cs) THEN <<>>
    ELSE LET c == cs[i]
             shared == Max(0, Min(covered, End(c)) - c.at + 1)
         IN  SubSeq(c.page_content, shared + 1, Len(c.page_content))
             \o RebuildFrom(cs, i + 1, Max(covered, End(c)))

Rebuild(pg) == RebuildFrom(ChunksOfPage(pg), 1, 0)

Covered(pg, pos) ==
    \E i \in 1..Len(chunks) :
        chunks[i].page = pg /\ chunks[i].at <= pos /\ pos <= End(chunks[i])

\* the text of a page without the characters no chunk holds
RECURSIVE CoveredTextFrom(_, _)
CoveredTextFrom(pg, pos) ==
    IF pos > Len(PageText(pg)) THEN <<>>
    ELSE (IF Covered(pg, pos) THEN <<PageText(pg)[pos]>> ELSE <<>>)
         \o CoveredTextFrom(pg, pos + 1)

\* C1: with chunk_size >= 1 and chunk_overlap < chunk_size, every chunk
\* chunk_documents returns is at most chunk_size characters long
C1_SizeBound ==
    (Chunked /\ ValidConfig) =>
        \A i \in 1..Len(chunks) : Len(chunks[i].page_content) <= processor.chunk_size

\* a chunk that received an overlap prefix and fills chunk_size exactly
C1_Witness ==
    /\ Chunked /\ ValidConfig
    /\ \E i \in 1..(Len(chunks) - 1) :
          /\ Adjacent(i)
          /\ OverlapLen(i) > 0
          /\ Len(chunks[i + 1].page_content) = processor.chunk_size

\* C2 as stated: joining the chunks of a page, each without the overlap it
\* shares with its predecessor, gives back the page text exactly
C2_ExactReconstruction ==
    (Chunked /\ ValidConfig) =>
        \A pg \in 1..Len(documents) : Rebuild(pg) = PageText(pg)

\* C2 amended: every chunk is a contiguous span of its page, the chunks
\* follow the order of the text, and joining them without the overlaps gives
\* back the page text except for characters that are whitespace: whatever is
\* in no chunk is a space or a newline
C2_ReconstructionUpToWhitespace ==
    (Chunked /\ processor # NoProcessor) =>
        /\ \A i \in 1..Len(chunks) :
              chunks[i].page_content
                 = SubSeq(PageText(chunks[i].page), chunks[i].at, End(chunks[i]))
        /\ \A i \in 1..(Len(chunks) - 1) :
              Adjacent(i) => /\ chunks[i].at <= chunks[i + 1].at
                             /\ End(chunks[i]) <= End(chunks[i + 1])
        /\ \A pg \in 1..Len(documents) :
              /\ Rebuild(pg) = CoveredTextFrom(pg, 1)
              /\ \A pos \in 1..Len(PageText(pg)) :
                    Covered(pg, pos) \/ PageText(pg)[pos] \in Whitespace

\* a page cut into several overlapping chunks with whitespace lost at a cut
C2_Witness ==
    /\ Chunked /\ ValidConfig
    /\ Len(chunks) >= 2
    /\ \E i \in 1..(Len(chunks) - 1) : Adjacent(i) /\ OverlapLen(i) > 0
    /\ \E pos \in 1..Len(PageText(1)) : ~Covered(1, pos)

\* C6: adjacent chunks of the same page share at most chunk_overlap
\* characters of the page (the tail of chunk i that is the head of chunk i+1)
C6_OverlapBound ==
    (Chunked /\ ValidConfig) =>
        \A i \in 1..(Len(chunks) - 1) :
            Adjacent(i) => End(chunks[i]) - chunks[i + 1].at + 1 <= processor.chunk_overlap

\* adjacent chunks sharing exactly chunk_overlap > 0 characters
C6_Witness ==
    /\ Chunked /\ ValidConfig
    /\ \E i \in 1..(Len(chunks) - 1) :
          /\ Adjacent(i)
          /\ OverlapLen(i) = processor.chunk_overlap
          /\ processor.chunk_overlap > 0

\* the segment of chunk i: the chunk without the prefix it shares with the
\* chunk before it on the same page
SegmentLen(i) ==
    IF i > 1 /\ Adjacent(i - 1)
    THEN Len(chunks[i].page_content) - OverlapLen(i - 1)
    ELSE Len(chunks[i].page_content)

LastK(s, k) == SubSeq(s, Len(s) - k + 1, Len(s))

\* C7 as stated: chunk i+1 is the last k characters of segment i followed by
\* segment i+1, with k = min(chunk_overlap, len(segment i),
\* chunk_size - len(segment i+1))
C7_OverlapIsMinimum ==
    (Chunked /\ ValidConfig) =>
        \A i \in 1..(Len(chunks) - 1) :
            Adjacent(i) =>
                OverlapLen(i) = Min(processor.chunk_overlap,
                                    Min(SegmentLen(i),
                                        processor.chunk_size - SegmentLen(i + 1)))

\* C7 amended: chunk i+1 starts with the last k characters of chunk i as it
\* was emitted (its own prefix included) followed by new text, where k is at
\* most min(chunk_overlap, len(chunk i), chunk_size - len(new text)) and can
\* be smaller, down to 0; the first chunk of a page has nothing before it
C7_OverlapIsTailOfPreviousChunk ==
    (Chunked /\ ValidConfig) =>
        \A i \in 1..(Len(chunks) - 1) :
            Adjacent(i) =>
                LET k == OverlapLen(i)
                IN  /\ k <= processor.chunk_overlap
                    /\ k <= Len(chunks[i].page_content)
                    /\ k <= processor.chunk_size - SegmentLen(i + 1)
                    /\ End(chunks[i]) - chunks[i + 1].at + 1 <= k
                    /\ SubSeq(chunks[i + 1].page_content, 1, k)
                          = LastK(chunks[i].page_content, k)

\* a chunk whose prefix holds a character its predecessor already took from
\* the chunk before: the overlap compounds over three chunks
C7_Witness ==
    /\ Chunked /\ ValidConfig
    /\ \E i \in 1..(Len(chunks) - 2) :
          /\ Adjacent(i) /\ Adjacent(i + 1)
          /\ OverlapLen(i + 1) > SegmentLen(i + 1)
          /\ chunks[i + 2].at <= End(chunks[i])

\* C5: after enrich_metadata the chunk_index values of a file's N chunks are
\* 0 .. N-1 in the order of the chunks in the source text and every chunk has
\* total_chunks = N
C5_IndexContiguity ==
    pc = "enriched" =>
        /\ \A i \in 1..Len(chunks) :
              /\ chunks[i].metadata.chunk_index = i - 1
              /\ chunks[i].metadata.total_chunks = Len(chunks)
        /\ \A i \in 1..(Len(chunks) - 1) :
              \/ chunks[i].page < chunks[i + 1].page
              \/ /\ chunks[i].page = chunks[i + 1].page
                 /\ chunks[i].at <= chunks[i + 1].at
                 /\ End(chunks[i]) <= End(chunks[i + 1])

\* a two-page file enriched into at least three chunks
C5_Witness ==
    /\ pc = "enriched"
    /\ Len(chunks) >= 3
    /\ \E i \in 1..Len(chunks) : chunks[i].page = 2

\* C8 as stated, for a positive chunk_size: construction with
\* chunk_overlap >= chunk_size (chunk_overlap = chunk_size included) fails
\* and no processor with such bounds exists
C8_RejectsOverlapAtLeastSize ==
    (pc # "new" /\ args.chunk_size >= 1 /\ args.chunk_overlap >= args.chunk_size)
        => (pc = "config_error" /\ processor = NoProcessor)

\* C8 amended: construction with chunk_overlap > chunk_size fails and leaves
\* no processor; a processor that exists holds exactly the arguments given,
\* with chunk_overlap <= chunk_size
C8_RejectsOverlapAboveSize ==
    /\ (pc # "new" /\ args.chunk_overlap > args.chunk_size)
          => (pc = "config_error" /\ processor = NoProcessor)
    /\ processor # NoProcessor
          => /\ processor.chunk_size = args.chunk_size
             /\ processor.chunk_overlap = args.chunk_overlap
             /\ processor.chunk_overlap <= processor.chunk_size

\* a construction that failed because chunk_overlap exceeds chunk_size
C8_Witness ==
    /\ pc = "config_error"
    /\ args.chunk_size >= 1
    /\ args.chunk_overlap > args.chunk_size

\* ------------------------------------------------------------- batch properties
Handled == SubSeq(files, 1, file_idx)

\* load_document returned documents for f
Loaded(f) == LoadDocument(f).documents # <<>>

\* the chunks of f on its own: loaded, chunked and enriched
ChunksOfFile(f) ==
    EnrichMetadata(ChunkDocuments(processor, LoadDocument(f).documents), f.path)

\* f loaded and its processing raised (no chunk to read the category from)
FailedAfterLoad(f) == Loaded(f) /\ ChunksOfFile(f) = <<>>

\* the chunks of the files of fs that loaded, file after file
RECURSIVE ChunksOfLoaded(_)
ChunksOfLoaded(fs) ==
    IF fs = <<>> THEN <<>>
    ELSE (IF Loaded(Head(fs)) THEN ChunksOfFile(Head(fs)) ELSE <<>>)
         \o ChunksOfLoaded(Tail(fs))

CountLoaded(fs) == Len(SelectSeq(fs, Loaded))

LoggedError(f, where) ==
    \E i \in 1..Len(log) :
        log[i] = [level |-> "error", at |-> where, file |-> f.path.name]

\* C3: whichever files fail to load, process_directory returns normally;
\* the chunks are exactly those of the files that loaded, in order,
\* total_documents is the number of files that loaded, and an error is
\* logged for every file whose load failed
C3_BatchIsolation ==
    /\ pc \in {"pd_loop", "pd_returned"} =>
          /\ all_chunks = ChunksOfLoaded(Handled)
          /\ stats.total_documents = CountLoaded(Handled)
          /\ \A i \in 1..file_idx :
                ~files[i].readable => LoggedError(files[i], "load_document")
    /\ pc = "pd_returned" =>
          /\ file_idx = Len(files)
          /\ result.kind = "returned"
          /\ result.chunks = ChunksOfLoaded(files)
          /\ result.stats.total_documents = CountLoaded(files)
    /\ directory.exists => pc # "pd_raised"

\* three files, the second failing to load: chunks of the first and third
C3_Witness ==
    /\ pc = "pd_returned"
    /\ Len(files) = 3
    /\ ~files[2].readable
    /\ ChunksOfFile(files[1]) # <<>>
    /\ ChunksOfFile(files[3]) # <<>>
    /\ result.stats.total_documents = 2
    /\ result.chunks = ChunksOfFile(files[1]) \o ChunksOfFile(files[3])

Succeeded(f) == Loaded(f) /\ ~FailedAfterLoad(f)

\* the chunks of the files of fs that were processed without failure
RECURSIVE ChunksOfSucceeded(_)
ChunksOfSucceeded(fs) ==
    IF fs = <<>> THEN <<>>
    ELSE (IF Succeeded(Head(fs)) THEN ChunksOfFile(Head(fs)) ELSE <<>>)
         \o ChunksOfSucceeded(Tail(fs))

RECURSIVE TypesOf(_)
TypesOf(fs) ==
    IF fs = <<>> THEN <<>>
    ELSE LET before == TypesOf(SubSeq(fs, 1, Len(fs) - 1))
             f == fs[Len(fs)]
         IN  IF Succeeded(f)
             THEN CountType(before, InferDocumentType(f.path.name))
             ELSE before

\* C4: a file whose processing fails after its load contributes nothing:
\* the chunks and total_documents, total_chunks and document_types returned
\* are those of the files that were processed without failure
C4_FailedDocumentContributesNothing ==
    pc = "pd_returned" =>
        /\ result.chunks = ChunksOfSucceeded(files)
        /\ result.stats.total_documents = Len(SelectSeq(files, Succeeded))
        /\ result.stats.total_chunks = Len(ChunksOfSucceeded(files))
        /\ result.stats.document_types = TypesOf(files)

\* C9: for a directory that does not exist process_directory raises
\* FileNotFoundError before any file is found or loaded and hands back
\* neither chunks nor stats
C9_MissingDirectoryRaises ==
    (~directory.exists /\ pc # "pd_call") =>
        /\ pc = "pd_raised"
        /\ result = [kind |-> "raised", error |-> "FileNotFoundError"]
        /\ files = <<>> /\ file_idx = 0
        /\ all_chunks = <<>> /\ stats = NoValue
        /\ log = <<>>

\* process_directory has raised for a missing directory
C9_Witness ==
    /\ pc = "pd_raised"
    /\ ~directory.exists
    /\ result.kind = "raised"

\* ------------------------------------------------------------- category properties
\* the rules of the category table, in order
CategoryRules ==
    << [keywords |-> {KwAccount, KwProduct}, category |-> "account_info"],
       [keywords |-> {KwFee, KwCharge}, category |-> "fees"],
       [keywords |-> {KwLoan, KwMortgage}, category |-> "loans"],
       [keywords |-> {KwSecurity, KwFraud}, category |-> "security"],
       [keywords |-> {KwService, KwSupport}, category |-> "customer_service"] >>

Categories ==
    {"account_info", "fees", "loans", "security", "customer_service", "general"}

SameLetter(a, b) ==
    \/ a = b
    \/ \E n \in 1..Len(Upper) : {a, b} = {Upper[n], Lowercase[n]}

\* kw occurs in name, letter case disregarded
OccursIgnoringCase(kw, name) ==
    \E i \in 1..(Len(name) - Len(kw) + 1) :
        \A j \in 1..Len(kw) : SameLetter(name[i + j - 1], kw[j])

RuleApplies(r, name) ==
    \E kw \in CategoryRules[r].keywords : OccursIgnoringCase(kw, name)

\* C10: _infer_document_type returns the category of the first rule, in the
\* fixed order, one of whose keywords occurs in the file name without regard
\* to case, 'general' when none does, and always one of the six categories
C10_CategoryRule ==
    pc = "inferred" =>
        LET name == file.path.name
        IN  /\ doc_type \in Categories
            /\ \A r \in 1..Len(CategoryRules) :
                  (RuleApplies(r, name) /\ \A q \in 1..(r - 1) : ~RuleApplies(q, name))
                     => doc_type = CategoryRules[r].category
            /\ (\A r \in 1..Len(CategoryRules) : ~RuleApplies(r, name))
                  => doc_type = "general"

\* a name with an upper-case keyword of a later rule in front of a keyword
\* of the first rule: the first rule wins
C10_Witness ==
    /\ pc = "inferred"
    /\ file.path.name = <<"L", "o", "a", "n">> \o KwProduct
    /\ doc_type = "account_info"

\* C11 as stated: the category inferred for "loan_products.docx" is "loans"
C11_LoanProductsIsLoans ==
    (pc = "inferred" /\ file.path.name = LoanProductsDocx) => doc_type = "loans"

\* C12: "account_types.docx" is account_info, "fee_schedule.docx" is fees,
\* "security_policy.docx" is security, "customer_service.docx" is
\* customer_service and "random_notes.docx" is general
C12_SampleCategories ==
    pc = "inferred" =>
        LET name == file.path.name
        IN  /\ name = AccountTypesDocx => doc_type = "account_info"
            /\ name = FeeScheduleDocx => doc_type = "fees"
            /\ name = SecurityPolicyDocx => doc_type = "security"
            /\ name = CustomerServiceDocx => doc_type = "customer_service"
            /\ name = RandomNotesDocx => doc_type = "general"

\* the category of "customer_service.docx" has been inferred
C12_Witness ==
    /\ pc = "inferred"
    /\ file.path.name = CustomerServiceDocx
    /\ doc_type = "customer_service"

\* ------------------------------------------------------------- short documents
\* the file loaded as one document whose text is non-empty and shorter than
\* chunk_size
ShortDocument ==
    /\ processor # NoProcessor
    /\ Len(documents) = 1
    /\ Len(documents[1].page_content) >= 1
    /\ Len(documents[1].page_content) < processor.chunk_size

\* positions of the characters of text that are not whitespace
Ink(text) == {i \in 1..Len(text) : text[i] \notin Whitespace}

\* text from its first to its last character that is not whitespace
Trimmed(text) ==
    IF Ink(text) = {} THEN <<>>
    ELSE SubSeq(text,
                CHOOSE i \in Ink(text) : \A j \in Ink(text) : i <= j,
                CHOOSE i \in Ink(text) : \A j \in Ink(text) : i >= j)

\* C13 as stated: a document with a non-empty text shorter than chunk_size
\* yields exactly one chunk, equal to the full text, with chunk_index 0 and
\* total_chunks 1
C13_SingleChunkIsFullText ==
    (pc = "enriched" /\ ShortDocument) =>
        /\ Len(chunks) = 1
        /\ chunks[1].page_content = documents[1].page_content
        /\ chunks[1].metadata.chunk_index = 0
        /\ chunks[1].metadata.total_chunks = 1

\* C13 amended: such a document yields exactly one chunk, equal to the text
\* without its leading and trailing whitespace, with chunk_index 0 and
\* total_chunks 1; a text of whitespace only yields no chunk
C13_SingleChunkIsTrimmedText ==
    (pc = "enriched" /\ ShortDocument) =>
        LET text == documents[1].page_content
        IN  IF Ink(text) = {}
            THEN chunks = <<>>
            ELSE /\ Len(chunks) = 1
                 /\ chunks[1].page_content = Trimmed(text)
                 /\ chunks[1].metadata.chunk_index = 0
                 /\ chunks[1].metadata.total_chunks = 1
                 /\ chunks[1].metadata.chunk_size = Len(Trimmed(text))

\* a short text that starts with whitespace, enriched as one chunk
C13_Witness ==
    /\ pc = "enriched" /\ ShortDocument
    /\ Len(chunks) = 1
    /\ documents[1].page_content[1] \in Whitespace
    /\ chunks[1].page_content # documents[1].page_content

\* C14: enrich_metadata applied to chunks it has already enriched, with the
\* same source file, leaves every chunk as the first application made it:
\* the same metadata keys and values and the same content
C14_EnrichmentIdempotent ==
    [][(pc = "enriched" /\ pc' = "enriched") => chunks' = chunks]_vars

\* enrich_metadata has run twice on several chunks of a file
C14_Witness ==
    /\ pc = "enriched"
    /\ enrichments = 2
    /\ Len(chunks) >= 2
    /\ \A i \in 1..Len(chunks) :
          {"source", "filename", "doc_type", "chunk_index", "total_chunks", "chunk_size"}
             \subseteq DOMAIN chunks[i].metadata

\* ------------------------------------------------------------- statistics properties
\* the lengths of the contents of cs[1..n] added up
RECURSIVE TotalLength(_, _)
TotalLength(cs, n) ==
    IF n = 0 THEN 0 ELSE TotalLength(cs, n - 1) + Len(cs[n].page_content)

\* C15: when process_directory returns, avg_chunk_size is the sum of the
\* content lengths of the returned chunks divided by their number, and 0
\* when no chunk is returned
C15_Average ==
    pc = "pd_returned" =>
        LET n == Len(result.chunks)
            avg == result.stats.avg_chunk_size
        IN  /\ avg.den > 0
            /\ IF n = 0
               THEN avg.num = 0
               ELSE avg.num * n = TotalLength(result.chunks, n) * avg.den

\* a returned average that is not a whole number
C15_Witness ==
    /\ pc = "pd_returned"
    /\ Len(result.chunks) >= 2
    /\ result.stats.avg_chunk_size.num % result.stats.avg_chunk_size.den # 0

\* ------------------------------------------------------------- file selection
SupportedExtensions == {ExtDocx, ExtPdf, ExtTxt}

\* the extension of f, compared without regard to case, is supported
Supported(f) == Lower(Suffix(f.path.name)) \in SupportedExtensions

Selected(f) == \E j \in 1..Len(files) : files[j] = f

\* C16 as stated: process_directory selects a file if and only if its
\* extension, compared without regard to case, is .docx, .pdf or .txt
C16_ExtensionMatchIgnoresCase ==
    pc \in {"pd_loop", "pd_returned"} =>
        \A i \in 1..Len(directory.entries) :
            Supported(directory.entries[i]) <=> Selected(directory.entries[i])

\* process_directory run on the files fs, from fresh all_chunks and stats
RECURSIVE RunBatch(_, _)
RunBatch(proc, fs) ==
    IF fs = <<>>
    THEN [all_chunks |-> <<>>, stats |-> NewStats, log |-> <<>>]
    ELSE ProcessFile(proc, RunBatch(proc, SubSeq(fs, 1, Len(fs) - 1)), fs[Len(fs)])

\* the directory without its files of unsupported type
WithoutUnsupported(dir) == [dir EXCEPT !.entries = SelectSeq(@, Supported)]

WarnedUnsupported(f) ==
    [level |-> "warning", at |-> "load_document", file |-> f.path.name]

\* C17: load_document on a file of unsupported type returns no document
\* and logs a warning without raising; in process_directory such a file
\* adds no chunk and changes no statistic, and the other files are
\* processed as if it were not there
C17_UnsupportedIsSoftSkip ==
    /\ \A i \in 1..Len(directory.entries) :
          LET f == directory.entries[i]
          IN  ~Supported(f) =>
                  LoadDocument(f) = [documents |-> <<>>, log |-> <<WarnedUnsupported(f)>>]
    /\ pc \in {"pd_loop", "pd_returned"} =>
          /\ \A i \in 1..file_idx :
                ~Supported(files[i]) =>
                    \E k \in 1..Len(log) : log[k] = WarnedUnsupported(files[i])
          /\ \A i \in 1..Len(all_chunks), j \in 1..Len(directory.entries) :
                all_chunks[i].metadata.filename = directory.entries[j].path.name
                    => Supported(directory.entries[j])
    /\ pc = "pd_returned" =>
          \E fold \in BOOLEAN :
              LET others == RunBatch(processor, FindFiles(WithoutUnsupported(directory), fold))
              IN  /\ files = FindFiles(directory, fold)
                  /\ result.chunks = others.all_chunks
                  /\ result.stats.total_documents = others.stats.total_documents
                  /\ result.stats.total_chunks = others.stats.total_chunks
                  /\ result.stats.document_types = others.stats.document_types

\* a file of unsupported type was handed to load_document inside
\* process_directory, and the file after it was processed into chunks
C17_Witness ==
    /\ pc = "pd_returned"
    /\ \E i \in 1..(Len(files) - 1) :
          /\ ~Supported(files[i])
          /\ \E k \in 1..Len(log) : log[k] = WarnedUnsupported(files[i])
          /\ \E c \in 1..Len(result.chunks) :
                result.chunks[c].metadata.filename = files[i + 1].path.name
    /\ \E j \in 1..Len(directory.entries) :
          directory.entries[j].path.name = NotesMd

\* ------------------------------------------------------------- order and independence
\* a chunk without its metadata: the content and where it was cut from
Bare(c) == [page_content |-> c.page_content, page |-> c.page, at |-> c.at]

\* the chunks chunk_documents makes of the files fs, file after file, bare
RECURSIVE BareChunksOf(_)
BareChunksOf(fs) ==
    IF fs = <<>> THEN <<>>
    ELSE LET made == ChunkDocuments(processor, LoadDocument(Head(fs)).documents)
         IN  [i \in 1..Len(made) |-> Bare(made[i])] \o BareChunksOf(Tail(fs))

SameFile(c, d) == c.metadata.filename = d.metadata.filename

\* C18: in what process_directory collects and returns, the chunks of a
\* file form one contiguous run, chunk_index counts up from 0 along the run,
\* the run follows the pages and the positions in the page text, and the
\* sequence is the chunks chunk_documents made, none moved, lost or repeated
C18_OrderPreserved ==
    pc \in {"pd_loop", "pd_returned"} =>
        /\ \A i, k \in 1..Len(all_chunks) :
              (i < k /\ SameFile(all_chunks[i], all_chunks[k]))
                 => \A j \in i..k : SameFile(all_chunks[i], all_chunks[j])
        /\ \A i \in 1..Len(all_chunks) :
              all_chunks[i].metadata.chunk_index =
                 IF i > 1 /\ SameFile(all_chunks[i - 1], all_chunks[i])
                 THEN all_chunks[i - 1].metadata.chunk_index + 1
                 ELSE 0
        /\ \A i \in 1..(Len(all_chunks) - 1) :
              SameFile(all_chunks[i], all_chunks[i + 1]) =>
                 \/ all_chunks[i].page < all_chunks[i + 1].page
                 \/ /\ all_chunks[i].page = all_chunks[i + 1].page
                    /\ all_chunks[i].at <= all_chunks[i + 1].at
                    /\ End(all_chunks[i]) <= End(all_chunks[i + 1])
        /\ [i \in 1..Len(all_chunks) |-> Bare(all_chunks[i])] = BareChunksOf(Handled)
        /\ pc = "pd_returned" => result.chunks = all_chunks

\* two files returned with several chunks each, cut at different positions
C18_Witness ==
    /\ pc = "pd_returned"
    /\ \E i, k \in 1..(Len(result.chunks) - 1) :
          /\ i < k
          /\ SameFile(result.chunks[i], result.chunks[i + 1])
          /\ SameFile(result.chunks[k], result.chunks[k + 1])
          /\ ~SameFile(result.chunks[i], result.chunks[k])
          /\ result.chunks[i].at < result.chunks[i + 1].at
          /\ result.chunks[k].page < result.chunks[k + 1].page

\* what process_directory makes of the file f on its own
Alone(f) == RunBatch(processor, <<f>>)

RECURSIVE ConcatAlone(_)
ConcatAlone(fs) ==
    IF fs = <<>> THEN <<>> ELSE Alone(Head(fs)).all_chunks \o ConcatAlone(Tail(fs))

RECURSIVE SumOf(_)
SumOf(numbers) == IF numbers = <<>> THEN 0 ELSE Head(numbers) + SumOf(Tail(numbers))

\* the statistics each of the files found gives on its own
StatsAlone == [i \in 1..Len(files) |-> Alone(files[i]).stats]

TypeCount(st, t) == IF t \in DOMAIN st.document_types THEN st.document_types[t] ELSE 0

\* C19: the batch result is the per-file results put together: the chunks
\* are the chunks each file gives on its own, metadata included, one file
\* after the other, and total_documents, total_chunks and every count of
\* document_types are the sums of the per-file values
C19_DocumentIndependence ==
    pc = "pd_returned" =>
        /\ result.chunks = ConcatAlone(files)
        /\ result.stats.total_documents = SumOf([i \in 1..Len(files) |-> StatsAlone[i].total_documents])
        /\ result.stats.total_chunks = SumOf([i \in 1..Len(files) |-> StatsAlone[i].total_chunks])
        /\ DOMAIN result.stats.document_types \subseteq Categories
        /\ \A t \in Categories :
              TypeCount(result.stats, t)
                 = SumOf([i \in 1..Len(files) |-> TypeCount(StatsAlone[i], t)])

\* a batch of three files, two of them of the same category
C19_Witness ==
    /\ pc = "pd_returned"
    /\ Len(files) = 3
    /\ \A i \in 1..3 : Alone(files[i]).all_chunks # <<>>
    /\ \E t \in DOMAIN result.stats.document_types : result.stats.document_types[t] = 2

\* ------------------------------------------------------------- empty text
\* C20: a document whose text is empty gives no chunk, whatever chunk_size
\* and chunk_overlap the processor was built with, and no chunk has an
\* empty content
C20_EmptyTextNoChunks ==
    (Chunked /\ processor # NoProcessor) =>
        /\ \A pg \in 1..Len(documents) :
              documents[pg].page_content = <<>>
                 => \A i \in 1..Len(chunks) : chunks[i].page # pg
        /\ \A i \in 1..Len(chunks) : chunks[i].page_content # <<>>

\* an empty page chunked next to a page with text
C20_Witness ==
    /\ Chunked /\ ValidConfig
    /\ Len(documents) = 2
    /\ documents[1].page_content = <<>>
    /\ chunks # <<>>
    /\ \A i \in 1..Len(chunks) : chunks[i].page = 2

\* ------------------------------------------------------------- termination
RECURSIVE Pow3(_)
Pow3(k) == IF k = 0 THEN 1 ELSE 3 * Pow3(k - 1)

\* a bound on the steps of a call on n characters with k >= 1 separators
StepBound(n, k) == (2 * n + 1) * Pow3(k - 1)

\* a bound on the steps the split j of a frame still needs
SplitCost(frame, j) ==
    IF \/ Len(frame.splits[j].content) < processor.chunk_size
       \/ frame.new_separators = <<>>
    THEN 1
    ELSE 1 + StepBound(Len(frame.splits[j].content), Len(frame.new_separators))

RECURSIVE CostFrom(_, _)
CostFrom(frame, j) ==
    IF j > Len(frame.splits) THEN 0 ELSE SplitCost(frame, j) + CostFrom(frame, j + 1)

\* the steps one call still needs: its splits from j on, and its return
FrameCost(frame, j) == 1 + CostFrom(frame, j)

RECURSIVE StackCost(_)
StackCost(k) ==
    IF k = 0 THEN 0
    ELSE StackCost(k - 1)
         + FrameCost(stack[k], IF k = Len(stack) THEN stack[k].i ELSE stack[k].i + 1)

\* a natural number that bounds the steps left before split_text returns
Measure ==
    IF pc = "split_call"
    THEN 1 + StepBound(Len(file.content[1]), Len(Separators))
    ELSE StackCost(Len(stack))

\* some step of the call can be taken
CanStep ==
    \/ pc = "split_call"
    \/ /\ pc = "splitting"
       /\ stack # <<>>
       /\ Top.i \in 1..(Len(Top.splits) + 1)

\* C21: for every text and every chunk_size >= 1 the recursion of
\* _split_text over the five separators ends.  Every call inside another
\* has strictly fewer separators to go through than its caller, so the
\* calls are never nested deeper than the separators are many; a call on
\* the empty separator splits into single characters and has no finer
\* separator to call with; until the outermost call has returned a step
\* can be taken, and every step lowers a measure that is a natural number
C21_SegmenterTerminates ==
    /\ [](\A k \in 2..Len(stack) :
             Len(stack[k].separators) < Len(stack[k - 1].separators))
    /\ [](Len(stack) <= Len(Separators))
    /\ [](\A k \in 1..Len(stack) :
             stack[k].separator = <<>> =>
                 /\ stack[k].new_separators = <<>>
                 /\ \A j \in 1..Len(stack[k].splits) :
                       Len(stack[k].splits[j].content) = 1)
    /\ [](Measure >= 0 /\ (pc # "split_done" => CanStep /\ Measure > 0))
    /\ [][Measure' < Measure]_vars

\* split_text has returned for a text with a space and a word of
\* chunk_size or more, which it had to cut between characters
C21_Witness ==
    /\ pc = "split_done"
    /\ Found(<<" ">>, file.content[1])
    /\ \E i \in 1..(Len(pieces) - 1) :
          /\ pieces[i + 1].at <= pieces[i].at + Len(pieces[i].content)
          /\ pieces[i].content[Len(pieces[i].content)] = "a"
          /\ pieces[i + 1].content[1] = "a"

\* the traced recursion returns what the splitter's split_text returns
SplitTraceAgrees ==
    pc = "split_done" =>
        pieces = SplitPage(file.content[1], processor.chunk_size, processor.chunk_overlap)

\* ------------------------------------------------------------- generation parameters
\* C22 as stated: BaseAgent.__init__, generate_response and
\* generate_with_history use the temperature and the max_tokens the caller
\* passed whenever that value is not None, temperature 0.0 included
C22_FallbackOnlyForNone ==
    /\ (pc = "client" /\ reply # NoValue /\ reply.op = "BaseAgent") =>
          /\ reply.temperature # None => agent.temperature = reply.temperature.value
          /\ reply.max_tokens # None => agent.max_tokens = reply.max_tokens.value
    /\ (pc = "client" /\ reply # NoValue /\ reply.op = "generate_response") =>
          /\ reply.temperature # None => request.temperature = reply.temperature.value
          /\ reply.max_tokens # None
                => request.max_output_tokens = reply.max_tokens.value
    /\ (pc = "client" /\ reply # NoValue /\ reply.op = "generate_with_history") =>
          /\ reply.temperature # None
                => reply.config.temperature = reply.temperature.value
          /\ reply.max_tokens # None
                => reply.config.max_output_tokens = reply.max_tokens.value

\* C24 as stated: whenever the API call under test_connection fails,
\* whatever message the failure carries, test_connection returns False
C24_FailedCallReturnsFalse ==
    (pc = "client" /\ reply # NoValue /\ reply.op = "test_connection"
        /\ reply.outcome.kind = "error")
      => reply.returned = FALSE

\* ------------------------------------------------------------- singleton
\* C23 as stated: over every interleaving of calls of get_gemini_client,
\* GeminiClient is constructed at most once and every call returns the
\* same instance
C23_Singleton ==
    pc = "singleton" =>
        /\ constructions <= 1
        /\ \A t, u \in 1..MaxThreads :
              (callers[t].got # None /\ callers[u].got # None)
                 => callers[t].got = callers[u].got

\* ------------------------------------------------------------- conversation history
History == agent.conversation_history

SendsMessage(op) == op \in {"process_message", "handle_greeting", "handle_farewell"}

\* C25: a process_message call with add_to_history=False (handle_greeting
\* and handle_farewell are such calls) leaves conversation_history as it
\* was, whatever the call's outcome; with add_to_history=True a call whose
\* API request succeeded appends exactly the user message and then the
\* assistant response, and the earlier entries stay as they were
C25_HistoryFrame ==
    [][pc = "agent" =>
        /\ (SendsMessage(reply'.op) /\ ~reply'.add_to_history)
              => agent'.conversation_history = History
        /\ (reply'.op \in {"handle_greeting", "handle_farewell"})
              => ~reply'.add_to_history
        /\ (reply'.op = "process_message" /\ reply'.add_to_history
               /\ reply'.outcome = "text")
              => agent'.conversation_history =
                    History \o <<Entry(RoleUser, reply'.user_message),
                                 Entry(RoleAssistant, reply'.returned)>>]_vars

\* a farewell whose API call failed, after two recorded exchanges
C25_Witness ==
    /\ pc = "agent"
    /\ reply # NoValue
    /\ reply.op = "handle_farewell"
    /\ reply.outcome = "error"
    /\ Len(History) = 4
    /\ History[3].content = <<"F", "e", "e", "s", "?">>
    /\ History[4].content = TextHello

\* C28: after any sequence of calls on one agent the history has even
\* length and alternates user, assistant, user, assistant, starting with
\* user; right after clear_history it is empty
C28_HistoryShape ==
    pc = "agent" =>
        /\ Len(History) % 2 = 0
        /\ \A i \in 1..Len(History) :
              History[i].role = IF i % 2 = 1 THEN RoleUser ELSE RoleAssistant
        /\ (reply # NoValue /\ reply.op = "clear_history") => History = <<>>

\* a history of two exchanges, the second one with a failed API call, left
\* by a call that recorded nothing
C28_Witness ==
    /\ pc = "agent"
    /\ reply # NoValue
    /\ reply.op = "handle_greeting"
    /\ Len(History) = 4
    /\ History[1].role = RoleUser
    /\ History[4].role = RoleAssistant
    /\ History[4].content = ErrorText(MessageTimeout)

\* C29: when something inside the try of process_message raises, the call
\* returns the fixed apology and the history is what it was before the call
C29_RaiseLeavesHistory ==
    [][(pc = "agent" /\ SendsMessage(reply'.op) /\ reply'.outcome = "prompt_error")
          => /\ reply'.returned = ApologyText
             /\ agent'.conversation_history = History]_vars

\* a call asked to record, whose prompt could not be built, on an agent that
\* already has an exchange in its history
C29_Witness ==
    /\ pc = "agent"
    /\ reply # NoValue
    /\ reply.op = "process_message"
    /\ reply.add_to_history
    /\ reply.outcome = "prompt_error"
    /\ reply.returned = ApologyText
    /\ Len(History) = 2

\* C30 as stated: a failed API call adds nothing to the history, so no
\* entry holds the error text of generate_response and no prompt sent later
\* shows it as an assistant turn
C30_FailedCallLeavesNoTrace ==
    pc = "agent" =>
        /\ \A i \in 1..Len(History) : ~Found(ErrorPrefix, History[i].content)
        /\ request # NoValue =>
              ~Found(Capitalize(RoleAssistant) \o <<":", " ">> \o ErrorPrefix,
                     request.prompt)

\* ------------------------------------------------------------- statistics and result
RECURSIVE SumCounts(_, _)
SumCounts(document_types, keys) ==
    IF keys = {}
    THEN 0
    ELSE LET k == CHOOSE t \in keys : TRUE
         IN  document_types[k] + SumCounts(document_types, keys \ {k})

\* C26 as stated: after a process_directory run the counts of
\* document_types add up to total_documents, also when a file loaded but
\* gave no chunk
C26_HistogramSumsToDocuments ==
    pc = "pd_returned" =>
        SumCounts(result.stats.document_types, DOMAIN result.stats.document_types)
           = result.stats.total_documents

\* C27: once the loop of process_directory has started, after every file
\* handled and at return, total_chunks is the number of chunks collected,
\* whichever files failed and wherever they failed
C27_ChunkCountMatchesResult ==
    /\ pc = "pd_loop" => stats.total_chunks = Len(all_chunks)
    /\ pc = "pd_returned" =>
          /\ stats.total_chunks = Len(all_chunks)
          /\ result.stats.total_chunks = Len(result.chunks)

\* a returned run over three files: one could not be loaded, one loaded but
\* gave no chunk, and one gave more chunks than it has pages
C27_Witness ==
    /\ pc = "pd_returned"
    /\ Len(files) = 3
    /\ \E i, j, k \in 1..3 :
          /\ LoadDocument(files[i]).documents = <<>>
          /\ LoadDocument(files[j]).documents # <<>>
          /\ Alone(files[j]).all_chunks = <<>>
          /\ Len(Alone(files[k]).all_chunks) > Len(LoadDocument(files[k]).documents)
    /\ Len(result.chunks) >= 2

====
